---- MODULE Spec2Model ----
(***************************************************************************)
(* basercms-mcp: the tool handlers that turn a tool invocation into calls  *)
(* on the baserCMS Web API.  An invocation is an async function: it runs   *)
(* from one await to the next, and every call on the remote service is an  *)
(* await.  The remote service (and the SDK in front of it) is outside the  *)
(* repository: each of its answers is a nondeterministic choice.            *)
(***************************************************************************)
EXTENDS Integers, Sequences, FiniteSets, TLC

VARIABLES
    tool,           \* tool[i]: the handler invocation i runs
    input,          \* input[i]: the input object of invocation i
    pc,             \* pc[i]: where invocation i stands (which await it is at)
    userId,         \* addBlogPost handler: const userId
    blogContentId,  \* const blogContentId / let resolvedBlogContentId
    categoryId,     \* addBlogPost handler: const categoryId
    payload,        \* the object handed to the remote create/edit call
    resp,           \* the answer of the last remote call of invocation i
    result,         \* what the handler returned or threw
    calls,          \* every call issued to the remote service, in order
    failed,         \* history: the lookups of invocation i that threw or found nothing
    customFields,   \* addCustomEntry handler: const custom_fields (mutated by its loop)
    cursor,         \* addCustomEntry handler: how many entries of custom_fields the loop has passed
    registered,     \* main: the tool names registered with the McpServer so far, in order
    phase,          \* main: "registering", then "connected" (or "failed")
    requests,       \* the tools/call requests the connected server has dispatched
    openaiKey,      \* process.env.OPENAI_API_KEY
    service,        \* whether an OpenAIService has been constructed
    generating,     \* the generate method that awaits the text-generation service
    generated,      \* what the last generate call returned or threw
    completions,    \* the requests issued to the text-generation service, in order
    customTable,    \* addCustomTable handler: const customTable
    customLinks,    \* createCustomLinks: const customLinks
    stdin,          \* the text standard input has still to deliver
    received,       \* history: the text the data events have delivered
    buffer,         \* the stdin loop: let buffer
    taken,          \* history: the lines the loop has sliced off the buffer, in order
    awaiting,       \* the data handlers that stand at `await handleRequest(input)`
    stdout          \* the lines written to standard output, in order

\* what main() and the McpServer hold
serverVars == <<registered, phase, requests>>

\* what the OpenAIService and its environment hold
aiVars == <<openaiKey, service, generating, generated, completions>>

\* what addCustomTable and createCustomLinks hold
tableVars == <<customTable, customLinks>>

\* what the line-delimited stdin loop holds
stdioVars == <<stdin, received, buffer, taken, awaiting, stdout>>

\* what the handler invocations hold
handlerVars == <<tool, input, pc, userId, blogContentId, categoryId, payload, resp,
                 result, calls, failed, customFields, cursor, customTable, customLinks>>

vars == <<tool, input, pc, userId, blogContentId, categoryId, payload, resp,
          result, calls, failed, customFields, cursor, registered, phase, requests,
          openaiKey, service, generating, generated, completions,
          customTable, customLinks, stdin, received, buffer, taken, awaiting, stdout>>

----------------------------------------------------------------------------
(* JavaScript values.  Every value is a record, so that any two compare.   *)

Undefined == [t |-> "undefined"]
Null == [t |-> "null"]
Num(n) == [t |-> "number", n |-> n]
Str(s) == [t |-> "string", s |-> s]
Bool(b) == [t |-> "boolean", b |-> b]
\* a string held as its characters (the timestamps, which the code slices)
Chars(c) == [t |-> "chars", c |-> c]
Arr(items) == [t |-> "array", items |-> items]
Obj(fields) == [t |-> "object", fields |-> fields]
\* a rejected promise / thrown Error
Err(m) == [t |-> "error", msg |-> m]

EmptyObject == Obj(<<>>)

IsError(v) == v.t = "error"
IsArray(v) == v.t = "array"
IsObject(v) == v.t = "object"
IsNullish(v) == v = Null \/ v = Undefined

\* ToBoolean: what `!x`, `x || y`, `if (x)` test
Truthy(v) ==
    CASE v.t = "undefined" -> FALSE
      [] v.t = "null" -> FALSE
      [] v.t = "number" -> v.n # 0
      [] v.t = "string" -> v.s # ""
      [] v.t = "chars" -> v.c # <<>>
      [] v.t = "boolean" -> v.b
      [] OTHER -> TRUE

\* x || y
Or(x, y) == IF Truthy(x) THEN x ELSE y

\* o.k of an object (undefined when the object has no such property)
Get(o, k) == IF k \in DOMAIN o.fields THEN o.fields[k] ELSE Undefined

\* o?.k
OptGet(o, k) == IF IsNullish(o) THEN Undefined ELSE Get(o, k)

\* o.k = v
Put(o, k, v) == Obj((k :> v) @@ o.fields)

Keys(o) == DOMAIN o.fields

\* `if (x !== undefined) updateData.x = x`, for each x of fields
CopySupplied(inp, fields) ==
    Obj([k \in {f \in fields : Get(inp, f) # Undefined} |-> Get(inp, k)])

\* String(n) of a non-negative integer: its decimal digits
RECURSIVE Digits(_)
Digits(n) ==
    LET d == <<"0", "1", "2", "3", "4", "5", "6", "7", "8", "9">>[(n % 10) + 1]
    IN IF n < 10 THEN d ELSE Digits(n \div 10) \o d

\* String(id)
StringOf(v) == Str(Digits(v.n))

\* JSON.stringify(v): a property whose value is undefined is left out
Stringify(v) ==
    [t |-> "json",
     of |-> IF IsObject(v)
            THEN Obj([k \in {x \in Keys(v) : v.fields[x] # Undefined} |-> v.fields[k]])
            ELSE v]

----------------------------------------------------------------------------
(* Bounds and the values the inputs and the remote answers are drawn from. *)

\* the longest candidate list a listing call answers with
MaxCandidates == 2

\* how many optional fields an edit invocation supplies at most
MaxSupplied == 2

\* the handler invocations that can be in flight at once
Invs == {1, 2}

Names == {"News", "Tech"}

\* an object with exactly the properties S, each drawn from its set in dom
ObjectsOver(S, dom) ==
    {Obj(f) : f \in {g \in [S -> UNION {dom[k] : k \in S}] :
                       \A k \in S : g[k] \in dom[k]}}

\* the objects with all of the properties req and some of the properties opt
Objects(req, opt, dom, most) ==
    UNION {ObjectsOver(req \cup S, dom) :
             S \in {T \in SUBSET opt : Cardinality(T) <= most}}

\* new Date(): the clock, as the characters of its toISOString()
Clock ==
    {Chars(<<"2","0","2","5","-","0","1","-","0","2","T",
             "0","3",":","0","4",":","0","5",".","6","7","8","Z">>),
     Chars(<<"2","0","2","6","-","1","1","-","3","0","T",
             "2","3",":","5","9",":","5","9",".","0","0","0","Z">>)}

\* s.slice(0, n)
Slice0(s, n) == Chars(SubSeq(s.c, 1, IF n < Len(s.c) THEN n ELSE Len(s.c)))

\* s.replace(a, b) with one-character strings: the first a becomes b
ReplaceFirst(s, a, b) ==
    LET hits == {j \in 1..Len(s.c) : s.c[j] = a}
        first == CHOOSE j \in hits : \A h \in hits : j <= h
    IN IF hits = {} THEN s
       ELSE Chars([j \in 1..Len(s.c) |-> IF j = first THEN b ELSE s.c[j]])

\* new Date().toISOString().slice(0, 19).replace('T', ' ')
SqlTimestamp(now) == ReplaceFirst(Slice0(now, 19), "T", " ")

(* What the remote service can answer. *)

\* getUserByEmail: it rejects, finds nobody, or answers a user object
UserResponses ==
    {Err("getUserByEmail failed"), Null, Undefined}
    \cup Objects({"email"}, {"id"},
                 [email |-> {Str("u@x")}, id |-> {Num(0), Num(5)}], 1)

\* one element of the list getBlogContents answers with
BlogContentCandidates ==
    Objects({"title"}, {"id"},
            [title |-> {Str(n) : n \in Names},
             id |-> {Num(0), Num(7), Num(8)}], 1)

\* one element of the list getBlogCategories answers with
CategoryCandidates ==
    Objects({"name", "title", "id"}, {},
            [name |-> {Str(n) : n \in Names},
             title |-> {Str(n) : n \in Names},
             id |-> {Num(0), Num(3), Num(4)}], 0)

Lists(S) == UNION {[1..n -> S] : n \in 0..MaxCandidates}

BlogContentResponses ==
    {Err("getBlogContents failed"), Null} \cup {Arr(l) : l \in Lists(BlogContentCandidates)}

CategoryResponses ==
    {Err("getBlogCategories failed"), Null} \cup {Arr(l) : l \in Lists(CategoryCandidates)}

LoginResponses == {Err("login failed"), Obj([token |-> Str("jwt")])}

WriteResponses == {Err("write failed"), Obj([id |-> Num(9)])}

\* the input objects addBlogPost is invoked with
AddBlogPostInputs ==
    Objects({"title", "detail"}, {"email", "category", "blog_content"},
            [title |-> {Str(""), Str("T")},
             detail |-> {Str(""), Str("D")},
             email |-> {Str(""), Str("u@x")},
             category |-> {Str(""), Str("News")},
             blog_content |-> {Str(""), Str("News")}], 3)

----------------------------------------------------------------------------
(* The resolvers of addBlogPostTool: what each returns for the answer r of *)
(* its lookup call.                                                        *)

DefaultUserId == 1
DefaultBlogContentId == 1

\* mutant: a value that an earlier call looked up is taken from a cache
NeedsLookupCached(raw) ==
    LET Mentions(c) ==
            \E k \in 1..Len(c.args) :
                \/ c.args[k] = raw
                \/ IsObject(c.args[k]) /\ Get(c.args[k], "title") = raw
    IN Truthy(raw) /\ \A j \in 1..Len(calls) : ~Mentions(calls[j])

\* mutant: no short-circuit on an absent value
NeedsLookupAlways(raw) == TRUE

\* `if (!raw) return <default>`: the resolver issues a lookup only for a truthy value
NeedsLookup(raw) == Truthy(raw)

\* mutant: `return user?.id` with no fallback, and nothing caught
getUserIdNoFallback(r) ==
    IF IsError(r) THEN Undefined ELSE OptGet(r, "id")

getUserId(r) ==
    IF IsError(r) THEN Num(DefaultUserId)
    ELSE Or(OptGet(r, "id"), Num(DefaultUserId))

\* mutant: the catch block gives no default
getBlogContentIdNoCatch(r) ==
    IF IsError(r) THEN Undefined
    ELSE IF Truthy(r) /\ IsArray(r) /\ Len(r.items) > 0
         THEN Get(r.items[1], "id")
         ELSE Num(1)

getBlogContentId(r) ==
    IF IsError(r) THEN Num(DefaultBlogContentId)
    ELSE IF Truthy(r) /\ IsArray(r) /\ Len(r.items) > 0
         THEN IF IsNullish(r.items[1])
              THEN Num(DefaultBlogContentId)  \* TypeError, caught
              ELSE Get(r.items[1], "id")
         ELSE Num(DefaultBlogContentId)

\* mutant: the candidates are matched on their title alone
CategoryMatchesTitleOnly(cat, category) == Get(cat, "title") = category

\* cat.name === category || cat.title === category
CategoryMatches(cat, category) ==
    Get(cat, "name") = category \/ Get(cat, "title") = category

getCategoryId(r, category) ==
    IF IsError(r) THEN Null
    ELSE IF Truthy(r) /\ IsArray(r)
         THEN LET stops == {j \in 1..Len(r.items) :
                              \/ IsNullish(r.items[j])
                              \/ CategoryMatches(r.items[j], category)}
                  j == CHOOSE s \in stops : \A o \in stops : s <= o
              IN IF stops = {} THEN Or(Undefined, Null)
                 ELSE IF IsNullish(r.items[j]) THEN Null  \* TypeError, caught
                 ELSE Or(Get(r.items[j], "id"), Null)
         ELSE Null

----------------------------------------------------------------------------
(* addBlogPostTool.handler and editBlogPostTool.handler                    *)

\* the input objects editBlogPost is invoked with
EditBlogPostOptional ==
    {"title", "detail", "content", "status", "name", "eye_catch", "email",
     "category", "blog_content", "blog_category_id", "user_id", "blog_content_id"}

EditBlogPostInputs ==
    Objects({"id"}, EditBlogPostOptional,
            [id |-> {Num(0), Num(9)},
             title |-> {Str("T")},
             detail |-> {Str("D")},
             content |-> {Str("")},
             status |-> {Num(0)},
             name |-> {Str("slug")},
             eye_catch |-> {Str("")},
             email |-> {Str(""), Str("u@x")},
             category |-> {Str(""), Str("News")},
             blog_content |-> {Str(""), Str("News")},
             blog_category_id |-> {Num(0), Num(3)},
             user_id |-> {Num(0), Num(5)},
             blog_content_id |-> {Num(0), Num(7)}], MaxSupplied)

BlogPostTools == {"addBlogPost", "editBlogPost"}

(* editBlogCategory, editBlogContent, editCustomLink, editCustomField *)

EditTools == {"editBlogCategory", "editBlogContent", "editCustomLink", "editCustomField"}

Strings == {Str(""), Str("x")}
Numbers == {Num(0), Num(2)}
Booleans == {Bool(FALSE), Bool(TRUE)}

EditBlogCategoryFields ==
    [title |-> Strings, name |-> Strings, blog_content_id |-> Numbers,
     parent_id |-> Numbers, status |-> Numbers, lft |-> Numbers, rght |-> Numbers]

EditBlogContentFields ==
    [name |-> Strings, title |-> Strings, description |-> Strings,
     template |-> Strings, list_count |-> Numbers,
     list_direction |-> {Str("ASC"), Str("DESC")}, feed_count |-> Numbers,
     tag_use |-> Booleans, comment_use |-> Booleans, comment_approve |-> Booleans,
     widget_area |-> Numbers, eye_catch_size |-> Strings, use_content |-> Booleans,
     status |-> Numbers]

EditCustomLinkFields ==
    [name |-> Strings, title |-> Strings, custom_table_id |-> Numbers,
     custom_field_id |-> Numbers, type |-> Strings, display_front |-> Booleans,
     use_api |-> Booleans, search_target_admin |-> Booleans,
     search_target_front |-> Booleans, status |-> Booleans]

EditCustomFieldFields ==
    [name |-> Strings, title |-> Strings,
     type |-> {Str("BcCcText"), Str("BcCcSelect")}, source |-> Strings,
     status |-> Numbers]

\* the optional fields of an edit tool's input schema, with the values drawn for each
EditFields(tl) ==
    CASE tl = "editBlogCategory" -> EditBlogCategoryFields
      [] tl = "editBlogContent" -> EditBlogContentFields
      [] tl = "editCustomLink" -> EditCustomLinkFields
      [] tl = "editCustomField" -> EditCustomFieldFields

EditInputs(tl) ==
    Objects({"id"}, DOMAIN EditFields(tl),
            [id |-> {Num(0), Num(9)}] @@ EditFields(tl), MaxSupplied)

\* mutant: the resolved blog content id is written even when none was supplied
EditBlogCategoryDataAlways(inp) ==
    Put(CopySupplied(inp, {"title", "name", "parent_id", "status", "lft", "rght"}),
        "blog_content_id", Or(Get(inp, "blog_content_id"), Num(1)))

\* updateData of editBlogCategory: blog_content_id is written as `blog_content_id || 1`
EditBlogCategoryData(inp) ==
    LET resolvedBlogContentId == Or(Get(inp, "blog_content_id"), Num(DefaultBlogContentId))
        others == CopySupplied(inp, {"title", "name", "parent_id", "status", "lft", "rght"})
    IN IF Get(inp, "blog_content_id") # Undefined
       THEN Put(others, "blog_content_id", resolvedBlogContentId)
       ELSE others

\* updateData of editBlogContent: the supplied fields and modified = toISOString()
EditBlogContentData(inp, now) ==
    Put(CopySupplied(inp, DOMAIN EditBlogContentFields), "modified", now)

EditCustomLinkData(inp) == CopySupplied(inp, DOMAIN EditCustomLinkFields)

EditCustomFieldData(inp) == CopySupplied(inp, DOMAIN EditCustomFieldFields)

EditData(tl, inp, now) ==
    CASE tl = "editBlogCategory" -> EditBlogCategoryData(inp)
      [] tl = "editBlogContent" -> EditBlogContentData(inp, now)
      [] tl = "editCustomLink" -> EditCustomLinkData(inp)
      [] tl = "editCustomField" -> EditCustomFieldData(inp)

\* the text the catch block of an edit tool puts before the error's message
ErrorPrefix(tl) ==
    CASE tl = "editBlogCategory" -> "editing the blog category failed: "
      [] tl = "editBlogContent" -> "editing the blog content failed: "
      [] tl = "editCustomLink" -> "editing the custom link failed: "
      [] tl = "editCustomField" -> "editing the custom field failed: "
      [] tl = "deleteBlogPost" -> "deleting the blog post failed: "
      [] tl = "deleteBlogCategory" -> "deleting the blog category failed: "
      [] tl = "deleteBlogContent" -> "deleting the blog content failed: "
      [] tl = "deleteBlogTag" -> "deleting the blog tag failed: "
      [] tl = "deleteCustomTable" -> "deleting the custom table failed: "
      [] tl = "deleteCustomField" -> "deleting the custom field failed: "
      [] tl = "deleteCustomLink" -> "deleting the custom link failed: "
      [] tl = "deleteCustomEntry" -> "deleting the custom entry failed: "
      [] tl = "addCustomEntry" -> "creating the custom entry failed: "
      [] tl = "addCustomTable" -> "creating the custom table failed: "
      [] OTHER -> ""

(* editBlogPost invoked without an id *)

EditBlogPostNoId ==
    Objects({}, {"title", "email"},
            [title |-> {Str("T")}, email |-> {Str("u@x")}], 2)

(* The delete tools *)

DeleteTools ==
    {"deleteBlogPost", "deleteBlogCategory", "deleteBlogContent", "deleteBlogTag",
     "deleteCustomTable", "deleteCustomField", "deleteCustomLink", "deleteCustomEntry"}

DeleteBlogPostInputs ==
    Objects({}, {"id", "blog_content_id"},
            [id |-> {Num(0), Num(9)}, blog_content_id |-> {Num(7)}], 2)

DeleteCustomEntryInputs ==
    Objects({}, {"custom_table_id", "id"},
            [custom_table_id |-> {Num(0), Num(2)}, id |-> {Num(0), Num(9)}], 2)

\* the input objects a delete tool is invoked with
DeleteInputs(tl) ==
    CASE tl \in {"deleteBlogPost", "deleteBlogCategory"} -> DeleteBlogPostInputs
      [] tl = "deleteCustomEntry" -> DeleteCustomEntryInputs
      [] OTHER -> Objects({}, {"id"}, [id |-> {Num(0), Num(9)}], 1)

\* what the SDK's delete call answers
DeleteResponses == {Err("delete failed"), Undefined, Obj([message |-> Str("deleted")])}

\* what the message of a delete tool calls the thing it deleted
Deleted(tl) ==
    CASE tl = "deleteBlogPost" -> "blog post "
      [] tl = "deleteBlogCategory" -> "blog category "
      [] tl = "deleteBlogContent" -> "blog content "
      [] tl = "deleteBlogTag" -> "blog tag "
      [] tl = "deleteCustomTable" -> "custom table "
      [] tl = "deleteCustomField" -> "custom field "
      [] tl = "deleteCustomLink" -> "custom link "
      [] tl = "deleteCustomEntry" -> "custom entry "

\* mutant: the success flag tells whether the SDK answered anything
DeleteResultByAnswer(tl, inp, r) ==
    LET message == Str(Deleted(tl) \o Digits(Get(inp, "id").n) \o " deleted")
    IN IF Truthy(r)
       THEN Obj([success |-> Bool(TRUE), message |-> message, data |-> r])
       ELSE Obj([error |-> Str(ErrorPrefix(tl) \o "no answer")])

\* the object a delete tool serializes after a delete that did not reject
DeleteResult(tl, inp, r) ==
    LET message == Str(Deleted(tl) \o Digits(Get(inp, "id").n) \o " deleted")
    IN IF tl \in {"deleteBlogPost", "deleteCustomField"}
       THEN Obj([success |-> Bool(TRUE),
                 message |-> message,
                 deletedId |-> Get(inp, "id"),
                 result |-> r])
       ELSE Obj([success |-> Bool(TRUE),
                 message |-> message,
                 data |-> r])

(* addCustomEntry *)

\* the values a caller puts in custom_fields: texts, a number, file paths
PlainText == Chars(<<"h", "i">>)
FilePath == Chars(<<"/", "a", ".", "p", "n", "g">>)
DirPath == Chars(<<"/", "a", ".", "b", "/", "c">>)
BareFile == Chars(<<"a", ".", "p", "n", "g">>)

\* Object.entries(custom_fields) lists the keys in the order the caller wrote them
FieldOrder == <<"title", "memo", "image">>

CustomFieldsObjects ==
    Objects({}, {"title", "memo", "image"},
            [title |-> {PlainText},
             memo |-> {PlainText, Num(3), DirPath, BareFile},
             image |-> {FilePath}], 2)

AddCustomEntryInputs ==
    Objects({}, {"custom_table_id", "title", "published", "custom_fields"},
            [custom_table_id |-> {Num(0), Num(2)},
             title |-> {Str(""), Str("T")},
             published |-> {Str(""), Str("2025-01-01 00:00:00")},
             custom_fields |-> CustomFieldsObjects], 4)

\* const { x = d } = input: the default stands in for an undefined property only
Destructure(inp, k, d) == IF Get(inp, k) = Undefined THEN d ELSE Get(inp, k)

Entries(o) == SelectSeq(FieldOrder, LAMBDA k : k \in Keys(o))

AlphaNumeric ==
    {"a", "b", "c", "g", "h", "i", "n", "p", "0", "1", "2", "5"}

\* fieldValue.includes('/') || fieldValue.includes('\\')
HasSlash(v) == \E j \in 1..Len(v.c) : v.c[j] \in {"/", "\\"}

\* /\.[a-zA-Z0-9]+$/.test(fieldValue)
HasExtension(v) ==
    \E j \in 1..(Len(v.c) - 1) :
        v.c[j] = "." /\ \A k \in (j + 1)..Len(v.c) : v.c[k] \in AlphaNumeric

\* typeof fieldValue === 'string' && hasSlash && hasExtension
LooksLikeFile(v) == v.t = "chars" /\ HasSlash(v) /\ HasExtension(v)

\* fs.createReadStream(path)
ReadStream(path) == [t |-> "stream", path |-> path]

\* what getCustomLinks answers inside isFileField
CustomLinkResponses ==
    {Err("getCustomLinks failed"), Null, Arr(<<>>),
     Arr(<<Obj([name |-> Str("image")])>>),
     Arr(<<Obj([custom_field |-> Obj([type |-> Str("BcCcFile")])])>>),
     Arr(<<Obj([custom_field |-> Obj([type |-> Str("BcCcText")])])>>)}

\* isFileField, for the answer r of its getCustomLinks call
isFileField(r) ==
    IF IsError(r) THEN Bool(FALSE)
    ELSE IF Truthy(r) /\ IsArray(r) /\ Len(r.items) > 0
         THEN IF Truthy(r.items[1]) /\ Truthy(Get(r.items[1], "custom_field"))
              THEN Bool(Get(Get(r.items[1], "custom_field"), "type") = Str("BcCcFile"))
              ELSE Bool(FALSE)
         ELSE Bool(FALSE)

\* mutant: custom_fields is spread first, and the core fields are written over it
AddCustomEntryDataCoreLast(inp, fields, defaultPublished) ==
    LET core ==
          [custom_table_id |-> Get(inp, "custom_table_id"),
           name |-> Destructure(inp, "name", Str("")),
           title |-> Get(inp, "title"),
           parent_id |-> Null,
           lft |-> Null,
           rght |-> Null,
           level |-> Null,
           status |-> Destructure(inp, "status", Bool(FALSE)),
           publish_begin |-> Or(Get(inp, "publish_begin"), Null),
           publish_end |-> Or(Get(inp, "publish_end"), Null),
           published |-> Or(Get(inp, "published"), defaultPublished),
           creator_id |-> Destructure(inp, "creator_id", Num(1))]
    IN Obj(core @@ fields.fields)

\* customEntryData: the core fields, then ...custom_fields spread over them
AddCustomEntryData(inp, fields, defaultPublished) ==
    LET core ==
          [custom_table_id |-> Get(inp, "custom_table_id"),
           name |-> Destructure(inp, "name", Str("")),
           title |-> Get(inp, "title"),
           parent_id |-> Null,
           lft |-> Null,
           rght |-> Null,
           level |-> Null,
           status |-> Destructure(inp, "status", Bool(FALSE)),
           publish_begin |-> Or(Get(inp, "publish_begin"), Null),
           publish_end |-> Or(Get(inp, "publish_end"), Null),
           published |-> Or(Get(inp, "published"), defaultPublished),
           creator_id |-> Destructure(inp, "creator_id", Num(1))]
    IN Obj(fields.fields @@ core)

\* what the SDK's addCustomEntry answers
CustomEntryResponses ==
    {Err("write failed"), Null, Obj([id |-> Num(9)]),
     Obj([errors |-> Str("invalid")])}

(* addCustomTable *)

\* how many names custom_field_names holds at most
MaxFieldNames == 2

FieldNames == {Str("price"), Str("color")}

\* the arrays custom_field_names is given as
FieldNameLists == {Arr(l) : l \in UNION {[1..n -> FieldNames] : n \in 0..MaxFieldNames}}

AddCustomTableInputs ==
    Objects({}, {"name", "title", "custom_field_names"},
            [name |-> {Str(""), Str("goods")},
             title |-> {Str(""), Str("Goods")},
             custom_field_names |-> FieldNameLists], 3)

\* customTableData
AddCustomTableData(inp, now) ==
    Obj([type |-> Str("1"),
         name |-> Get(inp, "name"),
         title |-> Get(inp, "title"),
         display_field |-> Str("title"),
         has_child |-> Num(0),
         created |-> now,
         modified |-> now])

\* what the SDK's addCustomTable answers: it rejects, answers nothing, answers
\* validation errors, or answers the created table (with or without its id)
CustomTableResponses ==
    {Err("write failed"), Null, Obj([errors |-> Str("invalid")]),
     Obj([id |-> Num(4), name |-> Str("goods")]),
     Obj([name |-> Str("goods")])}

\* the custom fields the remote service knows
CustomFieldCandidates ==
    {Obj([id |-> Num(11), name |-> Str("price"), type |-> Str("BcCcText"),
          title |-> Str("Price")]),
     Obj([name |-> Str("color"), type |-> Str("BcCcText"), title |-> Str("Color")])}

\* what getCustomFields answers
CustomFieldResponses ==
    {Err("getCustomFields failed"), Null}
    \cup {Arr(l) : l \in UNION {[1..n -> CustomFieldCandidates] : n \in 0..2}}

\* what the SDK's editCustomTable answers
EditTableResponses ==
    {Err("edit failed"), Obj([errors |-> Str("invalid")]),
     Obj([id |-> Num(4), name |-> Str("goods"), custom_links |-> Str("attached")])}

\* mutant: the keys are numbered from the loop index itself
LinkKeyFromZero(position) == "new_" \o Digits(position - 1)

\* `new_${i + 1}`, position being i + 1
LinkKey(position) == "new_" \o Digits(position)

\* the custom link built from the first field of a lookup's answer
CustomLink(customField) ==
    Obj([name |-> Get(customField, "name"),
         custom_field_id |-> Get(customField, "id"),
         type |-> Get(customField, "type"),
         display_front |-> Bool(TRUE),
         use_api |-> Bool(TRUE),
         status |-> Bool(TRUE),
         title |-> Get(customField, "title"),
         search_target_admin |-> Bool(TRUE),
         search_target_front |-> Bool(TRUE)])

\* `if (customFields && customFields.length > 0)`
FoundFields(r) == ~IsError(r) /\ Truthy(r) /\ IsArray(r) /\ Len(r.items) > 0

\* JSON.parse(JSON.stringify(o)) of an object of objects: the members that
\* are undefined are gone
RECURSIVE JsonRoundTrip(_)
JsonRoundTrip(v) ==
    IF IsObject(v)
    THEN Obj([k \in {x \in Keys(v) : v.fields[x] # Undefined} |->
                JsonRoundTrip(v.fields[k])])
    ELSE v

\* { ...customTable, warning }
WithWarning(table, warning) == Put(table, "warning", Str(warning))

\* what the handler serializes when the edit that attaches the links raised
EditFailed(table, links, msg) ==
    Put(WithWarning(table, "updating the custom links failed: " \o msg),
        "attempted_custom_links", links)

\* JSON.stringify of a string
Quote(s) == "\"" \o s \o "\""

Tools == BlogPostTools \cup EditTools \cup DeleteTools \cup {"addCustomEntry"}

InputsOf(tl) ==
    CASE tl = "addBlogPost" -> AddBlogPostInputs
      [] tl = "editBlogPost" -> EditBlogPostInputs \cup EditBlogPostNoId
      [] tl \in DeleteTools -> DeleteInputs(tl)
      [] tl = "addCustomEntry" -> AddCustomEntryInputs
      [] OTHER -> EditInputs(tl)

\* what the remote create / edit / delete call of a tool answers
WriteResponsesOf(tl) ==
    CASE tl \in DeleteTools -> DeleteResponses
      [] tl = "addCustomEntry" -> CustomEntryResponses
      [] OTHER -> WriteResponses

\* mutant: every handler wraps its write call in a try, as the edit tools do
CatchesEveryWrite(tl, where) ==
    IF tl = "addCustomEntry" THEN TRUE ELSE where = "write"

\* the part of a handler's body an error is raised in, and whether a try covers it
Catches(tl, where) ==
    CASE tl \in BlogPostTools -> FALSE
      [] tl \in {"addCustomEntry", "addCustomTable"} -> TRUE
      [] OTHER -> where = "write"

\* how the handler ends when Error(msg) is raised in that part of its body
Failure(tl, where, msg) ==
    IF Catches(tl, where)
    THEN [kind |-> "return",
          text |-> Stringify(Obj([error |-> Str(ErrorPrefix(tl) \o msg)]))]
    ELSE [kind |-> "throw", error |-> Err(msg)]

\* the position of a handler that has ended with result res
EndOf(res) == IF res.kind = "throw" THEN "threw" ELSE "returned"

\* mutant: the text tells the caller that a lookup fell back to its default
ResultTextWithWarning(tl, inp, r) ==
    IF tl \in DeleteTools THEN Stringify(DeleteResult(tl, inp, r))
    ELSE IF \E i \in Invs : tool[i] = tl /\ input[i] = inp /\ failed[i] # {}
         THEN Stringify(Obj([result |-> r, warning |-> Str("defaults were used")]))
         ELSE Stringify(r)

\* the text a handler returns when its write call answered r and nothing was raised
ResultText(tl, inp, r) ==
    IF tl \in DeleteTools THEN Stringify(DeleteResult(tl, inp, r)) ELSE Stringify(r)

\* how the handler ends when its create / edit / delete call answers r
Outcome(tl, inp, r) ==
    IF IsError(r) THEN Failure(tl, "write", r.msg)
    ELSE IF tl = "addCustomEntry" /\ (~Truthy(r) \/ Truthy(Get(r, "errors")))
         THEN Failure(tl, "write",
                      ErrorPrefix(tl) \o
                      Quote(Or(OptGet(r, "errors"), Str("Unknown error")).s))
         ELSE [kind |-> "return", text |-> ResultText(tl, inp, r)]

\* when a lookup counts as failed: it threw, or found nothing
LookupFailed(kind, r, raw) ==
    \/ IsError(r)
    \/ kind = "user" /\ IsNullish(r)
    \/ kind = "blogContent" /\ (~IsArray(r) \/ r.items = <<>>)
    \/ kind = "category" /\ (~IsArray(r) \/
                               \A j \in 1..Len(r.items) :
                                  /\ Get(r.items[j], "name") # raw
                                  /\ Get(r.items[j], "title") # raw)

\* mutant: the handlers check nothing before they log in
ValidateNothing(tl, inp) == ""

\* the validation at the head of a handler: the message it throws, or "" when it passes
Validate(tl, inp) ==
    CASE tl = "addBlogPost" ->
           IF ~Truthy(Get(inp, "title")) THEN "title is not specified"
           ELSE IF ~Truthy(Get(inp, "detail")) THEN "detail is not specified"
           ELSE ""
      [] tl = "deleteCustomEntry" ->
           IF ~Truthy(Get(inp, "custom_table_id")) THEN "custom_table_id is not specified"
           ELSE IF ~Truthy(Get(inp, "id")) THEN "id is not specified"
           ELSE ""
      [] tl = "addCustomTable" ->
           IF ~Truthy(Get(inp, "name")) \/ ~Truthy(Get(inp, "title"))
           THEN "name, title are required"
           ELSE ""
      [] tl = "addCustomEntry" ->
           IF ~Truthy(Get(inp, "custom_table_id")) THEN "custom_table_id is required"
           ELSE IF ~Truthy(Get(inp, "title")) THEN "title is required"
           ELSE ""
      [] OTHER ->
           IF ~Truthy(Get(inp, "id")) THEN "id is not specified" ELSE ""

\* what a resolver does with a raw value: a lookup, or its default at once
ResolverPlan(raw, default) ==
    IF NeedsLookup(raw) THEN [kind |-> "lookup", raw |-> raw]
    ELSE [kind |-> "value", v |-> default]

\* mutant: editBlogPost resolves the user as addBlogPost does, default included
UserPlanDefaulting(tl, inp) ==
    IF tl = "editBlogPost" /\ Get(inp, "user_id") # Undefined
    THEN [kind |-> "value", v |-> Get(inp, "user_id")]
    ELSE ResolverPlan(Get(inp, "email"), Num(DefaultUserId))

\* how the handler obtains the user id
UserPlan(tl, inp) ==
    IF tl = "addBlogPost"
    THEN ResolverPlan(Get(inp, "email"), Num(DefaultUserId))
    ELSE IF Get(inp, "user_id") # Undefined
         THEN [kind |-> "value", v |-> Get(inp, "user_id")]
         ELSE IF Truthy(Get(inp, "email"))
              THEN ResolverPlan(Get(inp, "email"), Num(DefaultUserId))
              ELSE [kind |-> "skip"]

\* how the handler obtains the blog content id
BlogContentPlan(tl, inp) ==
    IF tl = "addBlogPost"
    THEN ResolverPlan(Get(inp, "blog_content"), Num(DefaultBlogContentId))
    ELSE IF Get(inp, "blog_content_id") # Undefined
         THEN [kind |-> "value", v |-> Get(inp, "blog_content_id")]
         ELSE IF Truthy(Get(inp, "blog_content"))
              THEN ResolverPlan(Get(inp, "blog_content"), Num(DefaultBlogContentId))
              ELSE [kind |-> "value", v |-> Num(DefaultBlogContentId)]

\* mutant: editBlogPost resolves a supplied category name before it looks at
\* blog_category_id
CategoryPlanNameFirst(tl, inp, bcid) ==
    IF Truthy(Get(inp, "category")) /\ (tl = "addBlogPost" \/ Truthy(bcid))
    THEN ResolverPlan(Get(inp, "category"), Null)
    ELSE IF tl = "editBlogPost" /\ Get(inp, "blog_category_id") # Undefined
         THEN [kind |-> "value", v |-> Get(inp, "blog_category_id")]
         ELSE IF tl = "addBlogPost" THEN [kind |-> "value", v |-> Null]
              ELSE [kind |-> "skip"]

\* how the handler obtains the category id, the blog content id being bcid
CategoryPlan(tl, inp, bcid) ==
    IF tl = "addBlogPost"
    THEN ResolverPlan(Get(inp, "category"), Null)
    ELSE IF Get(inp, "blog_category_id") # Undefined
         THEN [kind |-> "value", v |-> Get(inp, "blog_category_id")]
         ELSE IF Truthy(Get(inp, "category")) /\ Truthy(bcid)
              THEN ResolverPlan(Get(inp, "category"), Null)
              ELSE [kind |-> "skip"]

\* mutant: the edit fills an omitted status with the create default
EditBlogPostBasicsDefaulted(inp) ==
    Put(CopySupplied(inp, {"title", "detail", "content", "name", "eye_catch"}),
        "status", Or(Get(inp, "status"), Num(0)))

\* updateData after the basic fields of editBlogPost: only what the input holds
EditBlogPostBasics(inp) ==
    CopySupplied(inp, {"title", "detail", "content", "status", "name", "eye_catch"})

\* mutant: a new post is published at once
AddBlogPostDataPublished(inp, uid, bcid, cid, posted) ==
    Obj([blog_content_id |-> bcid, no |-> Null, name |-> Str(""),
         title |-> Get(inp, "title"), content |-> Str(""),
         detail |-> Get(inp, "detail"), blog_category_id |-> cid,
         user_id |-> uid, status |-> Num(1), eye_catch |-> Str(""),
         posted |-> posted])

\* mutant: the create object is built with the default ids, whatever was resolved
AddBlogPostDataDefaultIds(inp, uid, bcid, cid, posted) ==
    Obj([blog_content_id |-> Num(1), no |-> Null, name |-> Str(""),
         title |-> Get(inp, "title"), content |-> Str(""),
         detail |-> Get(inp, "detail"), blog_category_id |-> Null,
         user_id |-> uid, status |-> Num(0), eye_catch |-> Str(""),
         posted |-> posted])

\* the object addBlogPost hands to the SDK's addBlogPost
AddBlogPostData(inp, uid, bcid, cid, posted) ==
    Obj([blog_content_id |-> bcid,
         no |-> Null,
         name |-> Str(""),
         title |-> Get(inp, "title"),
         content |-> Str(""),
         detail |-> Get(inp, "detail"),
         blog_category_id |-> cid,
         user_id |-> uid,
         status |-> Num(0),
         eye_catch |-> Str(""),
         posted |-> posted])

\* a tool invocation: the tool's name and an input object of its schema
Invocations ==
    UNION {{[tool |-> tl, input |-> inp] : inp \in InputsOf(tl)} : tl \in Tools}

\* mutant: the create call is written before the blog content and the category
\* are resolved
ContinueCreatingEarly(after) ==
    CASE after = "login" -> "user"
      [] OTHER -> "write"

\* the order of the statements of a blog post handler: where it goes on once
\* the step named after is done
Continue(after) ==
    CASE after = "login" -> "user"
      [] after = "user" -> "blogContent"
      [] after = "blogContent" -> "category"
      [] after = "category" -> "write"

\* mutant: the handler keeps its ids in module-level variables, which all
\* the invocations share
BindShared(f, i, v) == [k \in DOMAIN f |-> v]

\* `const x = v` in the body of the handler: a binding of invocation i alone
Bind(f, i, v) == [f EXCEPT ![i] = v]

NoResp == [from |-> "none"]
NoResult == [kind |-> "none"]
\* mutant: the category resolver creates the category it is asked for
CallCreating(i, op, args) ==
    [inv |-> i, op |-> IF op = "getBlogCategories" THEN "addBlogCategory" ELSE op,
     args |-> args]

Call(i, op, args) == [inv |-> i, op |-> op, args |-> args]

----------------------------------------------------------------------------
(* main(): the tools are registered with the McpServer, the transport is    *)
(* connected, and tools/call requests are dispatched by name.               *)

\* how many tools/call requests the connected server is followed through
MaxRequests == 2

\* const allTools: the name of each tool object, in the order of the array
AllTools ==
    <<"addBlogPost", "editBlogPost", "getBlogPost", "getBlogPosts", "deleteBlogPost",
      "getBlogCategory", "getBlogCategories", "addBlogCategory", "editBlogCategory",
      "deleteBlogCategory",
      "getBlogTag", "getBlogTags", "addBlogTag", "editBlogTag", "deleteBlogTag",
      "getBlogContent", "getBlogContents", "addBlogContent", "editBlogContent",
      "deleteBlogContent",
      "addCustomField", "getCustomFields", "getCustomField", "editCustomField",
      "deleteCustomField",
      "addCustomTable", "getCustomTable", "getCustomTables", "editCustomTable",
      "deleteCustomTable",
      "addCustomContent", "getCustomContent", "getCustomContents", "editCustomContent",
      "deleteCustomContent",
      "addCustomEntry", "getCustomEntries", "getCustomEntry", "editCustomEntry",
      "deleteCustomEntry",
      "getCustomLink", "getCustomLinks", "addCustomLink", "editCustomLink",
      "deleteCustomLink",
      "serverInfo">>

\* the tool names the README lists as provided by the server
ReadmeTools ==
    {"getBlogPost", "getBlogPosts", "addBlogPost", "editBlogPost", "deleteBlogPost",
     "getBlogCategory", "getBlogCategories", "addBlogCategory", "editBlogCategory",
     "deleteBlogCategory",
     "getBlogContent", "getBlogContents", "addBlogContent", "editBlogContent",
     "deleteBlogContent",
     "getBlogTag", "getBlogTags", "addBlogTag", "editBlogTag", "deleteBlogTag",
     "getCustomTable", "getCustomTables", "addCustomTable", "editCustomTable",
     "deleteCustomTable",
     "getCustomField", "getCustomFields", "getIndexCustomFields", "addCustomField",
     "editCustomField", "deleteCustomField",
     "getCustomEntry", "getCustomEntries", "addCustomEntry", "editCustomEntry",
     "deleteCustomEntry",
     "getCustomContent", "getCustomContents", "addCustomContent", "editCustomContent",
     "deleteCustomContent",
     "getCustomLink", "getCustomLinks", "addCustomLink", "editCustomLink",
     "deleteCustomLink",
     "serverInfo"}

\* the names a client may ask for: the listed ones, and one the server never had
RequestedNames == ReadmeTools \cup {"addArticle"}

NamesIn(seq) == {seq[k] : k \in 1..Len(seq)}

----------------------------------------------------------------------------
(* OpenAIService: the texts it generates, with or without an API key.       *)

\* how many generate calls an OpenAIService is followed through
MaxGenerations == 2

\* generateSummary keeps this many characters of the detail
SummaryLength == 100

Repeat(c, n) == [k \in 1..n |-> c]

\* the values of OPENAI_API_KEY: not set, set to the empty string, set to a key
ApiKeys == {Undefined, Str(""), Str("sk-x")}

\* the titles and details the generate methods are called with
Texts ==
    {Chars(<<>>), Chars(<<"a", "b", "c">>), Chars(Repeat("x", SummaryLength)),
     Chars(Repeat("x", SummaryLength) \o <<"y">>)}

\* what chat.completions.create answers
CompletionResponses ==
    {Err("completion failed"),
     Obj([choices |-> Arr(<<>>)]),
     Obj([choices |-> Arr(<<Obj([message |-> Obj([content |-> Null])])>>)]),
     Obj([choices |-> Arr(<<Obj([message |-> Obj([content |-> Chars(<<"o", "k">>)])])>>)])}

\* mutant: the service believes it always has a key
isAvailableAlways(key) == TRUE

\* isAvailable(): !!process.env.OPENAI_API_KEY
isAvailable(key) == Truthy(key)

\* x ?? y
Coalesce(x, y) == IF IsNullish(x) THEN y ELSE x

\* completion.choices[0]?.message?.content ?? ''
ContentOf(completion) ==
    LET choices == Get(completion, "choices").items
        first == IF Len(choices) > 0 THEN choices[1] ELSE Undefined
    IN Coalesce(OptGet(OptGet(first, "message"), "content"), Chars(<<>>))

\* `<p>${title}...</p>`: the title between the tag and the fixed closing text
\* (the text is written here as one "*")
LocalDetail(title) ==
    Chars(<<"<", "p", ">">> \o title.c \o <<"*", "<", "/", "p", ">">>)

\* detail.substring(0, 100) + '...'
LocalSummary(detail) ==
    Chars(Slice0(detail, SummaryLength).c \o <<".", ".", ".">>)

NotGenerating == [method |-> "none"]

----------------------------------------------------------------------------
(* The line-delimited loop on standard input: every line is a request, every *)
(* request is answered with one line on standard output.  A text is the      *)
(* sequence of its characters.                                               *)

\* how many lines standard input delivers at most
MaxLines == 2

Newline == "\n"

\* the request texts: one character stands for the members of the object, so
\* that "{h}" is a health request and "{a}" an addArticle request with a
\* title and a detail; "x" and the empty line are no JSON texts
HealthLine == <<"{", "h", "}">>
ArticleLine == <<"{", "a", "}">>
BadLine == <<"x">>
EmptyLine == <<>>

RequestLines == {HealthLine, ArticleLine, BadLine, EmptyLine}

\* a line that has not got its newline yet
PartialLines == {<<>>, <<"{", "h">>}

RECURSIVE Join(_)
\* the text of the lines ls, each ended by its newline
Join(ls) == IF ls = <<>> THEN <<>> ELSE Head(ls) \o <<Newline>> \o Join(Tail(ls))

\* the texts standard input delivers: some lines, and perhaps the start of one
InputTexts ==
    {Join(ls) \o rest :
        ls \in UNION {[1..n -> RequestLines] : n \in 0..MaxLines},
        rest \in PartialLines}

\* buffer.indexOf(ch): the index of the first ch, counted from 0, or -1
IndexOf(text, ch) ==
    LET hits == {j \in 1..Len(text) : text[j] = ch}
    IN IF hits = {} THEN -1
       ELSE (CHOOSE j \in hits : \A h \in hits : j <= h) - 1

\* buffer.slice(0, end)
SliceTo(text, end) == SubSeq(text, 1, end)

\* buffer.slice(start)
SliceFrom(text, start) == SubSeq(text, start + 1, Len(text))

\* JSON.parse(line): the object of a request text, or the SyntaxError it throws
JsonParse(line) ==
    IF line = HealthLine THEN Obj([action |-> Str("health")])
    ELSE IF line = ArticleLine
    THEN Obj([action |-> Str("addArticle"), title |-> Str("T"), detail |-> Str("D")])
    ELSE IF line = <<>> THEN Err("Unexpected end of JSON input")
    ELSE Err("Unexpected token")

\* how the promise of handleRequest(input) settles: in the same turn of the
\* event loop ("microtask": no await inside was reached, or the OpenAI
\* constructor threw), or after the remote calls inside have answered
SettlingOf(request) ==
    IF Get(request, "action") = Str("addArticle") THEN {"microtask", "remote"}
    ELSE {"microtask"}

\* what handleRequest(input) returns or throws
OutcomesOf(request, settling) ==
    IF Get(request, "action") = Str("health") THEN {Obj([status |-> Str("ok")])}
    ELSE IF settling = "microtask" THEN {Err("missing credentials")}
    ELSE {Obj([id |-> Num(9)]), Err("request failed")}

\* process.stdout.write(JSON.stringify(value) + '\n') for the line numbered k
WriteLine(k, value) == <<[line |-> k, text |-> Stringify(value)]>>

\* mutant: the catch block swallows the error
OnCatchSilent(k, e) == <<>>

\* catch (e): process.stdout.write(JSON.stringify({ error: e.message }) + '\n')
OnCatch(k, e) == WriteLine(k, Obj([error |-> Str(e.msg)]))

NotAwaiting == [line |-> 0]

RECURSIVE Loop(_, _, _)
\* the while loop of the data handler, from the test of boundary to its next
\* await: it slices lines off the buffer, answers those that do not parse, and
\* stops at the first that does (to await handleRequest) or when the buffer
\* holds no newline
Loop(buf, tk, out) ==
    LET boundary == IndexOf(buf, Newline)
    IN IF boundary = -1
       THEN [buffer |-> buf, taken |-> tk, stdout |-> out, at |-> NotAwaiting]
       ELSE LET line == SliceTo(buf, boundary)
                rest == SliceFrom(buf, boundary + 1)
                k == Len(tk) + 1
                parsed == JsonParse(line)
            IN IF IsError(parsed)
               THEN Loop(rest, Append(tk, line), out \o OnCatch(k, parsed))
               ELSE [buffer |-> rest, taken |-> Append(tk, line), stdout |-> out,
                     at |-> [line |-> k, input |-> parsed]]

\* the handlers whose promise settles before the event loop takes its next event
Microtasks == {w \in awaiting : w.settling = "microtask"}

\* the place of an invocation that was never made
NotInvoked == [tool |-> "none", input |-> EmptyObject]

\* the state in which the invocations inv have just been made
Launch(inv) ==
    /\ tool = [i \in Invs |-> inv[i].tool]
    /\ input = [i \in Invs |-> inv[i].input]
    /\ pc = [i \in Invs |-> IF inv[i] = NotInvoked THEN "idle" ELSE "start"]
    /\ userId = [i \in Invs |-> Undefined]
    /\ blogContentId = [i \in Invs |-> Undefined]
    /\ categoryId = [i \in Invs |-> Undefined]
    /\ payload = [i \in Invs |-> EmptyObject]
    /\ resp = [i \in Invs |-> NoResp]
    /\ result = [i \in Invs |-> NoResult]
    /\ calls = <<>>
    /\ failed = [i \in Invs |-> {}]
    /\ customFields = [i \in Invs |-> EmptyObject]
    /\ cursor = [i \in Invs |-> 0]
    /\ customTable = [i \in Invs |-> Undefined]
    /\ customLinks = [i \in Invs |-> EmptyObject]

\* the stdin loop is not running
NoStdio ==
    /\ stdin = <<>>
    /\ received = <<>>
    /\ buffer = <<>>
    /\ taken = <<>>
    /\ awaiting = {}
    /\ stdout = <<>>

\* no OpenAIService has been constructed
NoOpenAI ==
    /\ service = "none"
    /\ generating = NotGenerating
    /\ generated = NoResult
    /\ completions = <<>>

\* main() has registered allTools and connected the transport
Serving ==
    /\ registered = AllTools
    /\ phase = "connected"
    /\ requests = <<>>
    /\ openaiKey = Undefined
    /\ NoOpenAI
    /\ NoStdio

\* one tool call, made on its own
Init == Serving /\ \E first \in Invocations : Launch(<<first, NotInvoked>>)

\* the handler's first step: validate, then createApiClient() issues the login
Start(i) ==
    /\ pc[i] = "start"
    /\ LET msg == Validate(tool[i], input[i])
           end == Failure(tool[i], "validation", msg)
       IN IF msg # ""
          THEN /\ pc' = [pc EXCEPT ![i] = EndOf(end)]
               /\ result' = [result EXCEPT ![i] = end]
               /\ calls' = calls
          ELSE /\ pc' = [pc EXCEPT ![i] = "login"]
               /\ result' = result
               /\ calls' = Append(calls, Call(i, "login", <<>>))
    /\ customFields' = [customFields EXCEPT ![i] =
                          IF tool[i] = "addCustomEntry"
                          THEN Destructure(input[i], "custom_fields", EmptyObject)
                          ELSE @]
    /\ UNCHANGED <<stdioVars, tableVars, aiVars, serverVars, tool, input, cursor, userId, blogContentId, categoryId, payload, resp, failed>>

\* mutant: createApiClient catches a rejected login and hands the client on
LoginResponseAbsorbing(i) ==
    /\ pc[i] = "login"
    /\ \E r \in LoginResponses :
         resp' = [resp EXCEPT ![i] = [from |-> "login", value |-> r]]
    /\ pc' = [pc EXCEPT ![i] =
                IF tool[i] \in BlogPostTools THEN Continue("login")
                ELSE IF tool[i] = "addCustomEntry" THEN "fields"
                ELSE "write"]
    /\ payload' = [payload EXCEPT ![i] =
                     IF tool[i] = "editBlogPost"
                     THEN EditBlogPostBasics(input[i]) ELSE @]
    /\ UNCHANGED <<stdioVars, tableVars, aiVars, serverVars, tool, input, customFields, cursor, userId, blogContentId, categoryId, calls, failed, result>>

\* apiClient.login() settles; a rejection leaves the handler (no try around it)
LoginResponse(i) ==
    /\ pc[i] = "login"
    /\ \E r \in LoginResponses :
         /\ resp' = [resp EXCEPT ![i] = [from |-> "login", value |-> r]]
         /\ IF IsError(r)
            THEN /\ pc' = [pc EXCEPT ![i] = EndOf(Failure(tool[i], "login", r.msg))]
                 /\ result' = [result EXCEPT ![i] = Failure(tool[i], "login", r.msg)]
                 /\ payload' = payload
            ELSE /\ pc' = [pc EXCEPT ![i] =
                             IF tool[i] \in BlogPostTools THEN Continue("login")
                             ELSE IF tool[i] = "addCustomEntry" THEN "fields"
                             ELSE IF tool[i] = "addCustomTable" THEN "createTable"
                             ELSE "write"]
                 /\ result' = result
                 /\ payload' = [payload EXCEPT ![i] =
                                  IF tool[i] = "editBlogPost"
                                  THEN EditBlogPostBasics(input[i]) ELSE @]
    /\ UNCHANGED <<stdioVars, tableVars, aiVars, serverVars, tool, input, customFields, cursor, userId, blogContentId, categoryId, calls, failed>>

\* the user id: taken from the input, defaulted, or looked up by email
ResolveUser(i) ==
    /\ pc[i] = "user"
    /\ LET plan == UserPlan(tool[i], input[i])
       IN CASE plan.kind = "lookup" ->
                 /\ calls' = Append(calls, Call(i, "getUserByEmail", <<plan.raw>>))
                 /\ pc' = [pc EXCEPT ![i] = "awaitUser"]
                 /\ UNCHANGED <<userId, payload>>
            [] plan.kind = "value" ->
                 /\ userId' = Bind(userId, i, plan.v)
                 /\ payload' = [payload EXCEPT ![i] =
                                  IF tool[i] = "editBlogPost"
                                  THEN Put(@, "user_id", plan.v) ELSE @]
                 /\ pc' = [pc EXCEPT ![i] = Continue("user")]
                 /\ calls' = calls
            [] plan.kind = "skip" ->
                 /\ pc' = [pc EXCEPT ![i] = Continue("user")]
                 /\ UNCHANGED <<userId, payload, calls>>
    /\ resp' = [resp EXCEPT ![i] = NoResp]
    /\ UNCHANGED <<stdioVars, tableVars, aiVars, serverVars, tool, input, customFields, cursor, blogContentId, categoryId, result, failed>>

\* getUserByEmail settles and getUserId returns
UserLookupResponse(i) ==
    /\ pc[i] = "awaitUser"
    /\ \E r \in UserResponses :
         /\ resp' = [resp EXCEPT ![i] = [from |-> "getUserByEmail", value |-> r]]
         /\ userId' = Bind(userId, i, getUserId(r))
         /\ payload' = [payload EXCEPT ![i] =
                          IF tool[i] = "editBlogPost"
                          THEN Put(@, "user_id", getUserId(r)) ELSE @]
         /\ failed' = [failed EXCEPT ![i] =
                         IF LookupFailed("user", r, Get(input[i], "email"))
                         THEN @ \cup {"user"} ELSE @]
    /\ pc' = [pc EXCEPT ![i] = Continue("user")]
    /\ UNCHANGED <<stdioVars, tableVars, aiVars, serverVars, tool, input, customFields, cursor, blogContentId, categoryId, result, calls>>

\* the blog content id: taken from the input, defaulted, or looked up by title
ResolveBlogContent(i) ==
    /\ pc[i] = "blogContent"
    /\ LET plan == BlogContentPlan(tool[i], input[i])
       IN CASE plan.kind = "lookup" ->
                 /\ calls' = Append(calls, Call(i, "getBlogContents",
                                 <<Obj([admin |-> Bool(TRUE), title |-> plan.raw])>>))
                 /\ pc' = [pc EXCEPT ![i] = "awaitBlogContent"]
                 /\ UNCHANGED <<blogContentId, payload>>
            [] plan.kind = "value" ->
                 /\ blogContentId' = Bind(blogContentId, i, plan.v)
                 /\ payload' = [payload EXCEPT ![i] =
                                  IF tool[i] = "editBlogPost"
                                  THEN Put(@, "blog_content_id", plan.v) ELSE @]
                 /\ pc' = [pc EXCEPT ![i] = Continue("blogContent")]
                 /\ calls' = calls
    /\ resp' = [resp EXCEPT ![i] = NoResp]
    /\ UNCHANGED <<stdioVars, tableVars, aiVars, serverVars, tool, input, customFields, cursor, userId, categoryId, result, failed>>

\* getBlogContents settles and getBlogContentId returns
BlogContentLookupResponse(i) ==
    /\ pc[i] = "awaitBlogContent"
    /\ \E r \in BlogContentResponses :
         /\ resp' = [resp EXCEPT ![i] = [from |-> "getBlogContents", value |-> r]]
         /\ blogContentId' = Bind(blogContentId, i, getBlogContentId(r))
         /\ payload' = [payload EXCEPT ![i] =
                          IF tool[i] = "editBlogPost"
                          THEN Put(@, "blog_content_id", getBlogContentId(r)) ELSE @]
         /\ failed' = [failed EXCEPT ![i] =
                         IF LookupFailed("blogContent", r, Get(input[i], "blog_content"))
                         THEN @ \cup {"blogContent"} ELSE @]
    /\ pc' = [pc EXCEPT ![i] = Continue("blogContent")]
    /\ UNCHANGED <<stdioVars, tableVars, aiVars, serverVars, tool, input, customFields, cursor, userId, categoryId, result, calls>>

\* mutant: the category lookup is scoped by the default blog content, whatever
\* blog content the invocation resolved
ResolveCategoryDefaultScope(i) ==
    /\ pc[i] = "category"
    /\ LET plan == CategoryPlan(tool[i], input[i], blogContentId[i])
       IN CASE plan.kind = "lookup" ->
                 /\ calls' = Append(calls, Call(i, "getBlogCategories",
                                 <<Num(DefaultBlogContentId),
                                   Obj([admin |-> Bool(TRUE), title |-> plan.raw])>>))
                 /\ pc' = [pc EXCEPT ![i] = "awaitCategory"]
                 /\ UNCHANGED <<categoryId, payload>>
            [] plan.kind = "value" ->
                 /\ categoryId' = Bind(categoryId, i, plan.v)
                 /\ payload' = [payload EXCEPT ![i] =
                                  IF tool[i] = "editBlogPost"
                                  THEN Put(@, "blog_category_id", plan.v) ELSE @]
                 /\ pc' = [pc EXCEPT ![i] = Continue("category")]
                 /\ calls' = calls
            [] plan.kind = "skip" ->
                 /\ pc' = [pc EXCEPT ![i] = Continue("category")]
                 /\ UNCHANGED <<categoryId, payload, calls>>
    /\ resp' = [resp EXCEPT ![i] = NoResp]
    /\ UNCHANGED <<stdioVars, tableVars, aiVars, serverVars, tool, input, customFields, cursor, userId, blogContentId, result, failed>>

\* the category id: taken from the input, left out, or looked up by name
ResolveCategory(i) ==
    /\ pc[i] = "category"
    /\ LET plan == CategoryPlan(tool[i], input[i], blogContentId[i])
       IN CASE plan.kind = "lookup" ->
                 /\ calls' = Append(calls, Call(i, "getBlogCategories",
                                 <<blogContentId[i],
                                   Obj([admin |-> Bool(TRUE), title |-> plan.raw])>>))
                 /\ pc' = [pc EXCEPT ![i] = "awaitCategory"]
                 /\ UNCHANGED <<categoryId, payload>>
            [] plan.kind = "value" ->
                 /\ categoryId' = Bind(categoryId, i, plan.v)
                 /\ payload' = [payload EXCEPT ![i] =
                                  IF tool[i] = "editBlogPost"
                                  THEN Put(@, "blog_category_id", plan.v) ELSE @]
                 /\ pc' = [pc EXCEPT ![i] = Continue("category")]
                 /\ calls' = calls
            [] plan.kind = "skip" ->
                 /\ pc' = [pc EXCEPT ![i] = Continue("category")]
                 /\ UNCHANGED <<categoryId, payload, calls>>
    /\ resp' = [resp EXCEPT ![i] = NoResp]
    /\ UNCHANGED <<stdioVars, tableVars, aiVars, serverVars, tool, input, customFields, cursor, userId, blogContentId, result, failed>>

\* getBlogCategories settles and getCategoryId returns
CategoryLookupResponse(i) ==
    /\ pc[i] = "awaitCategory"
    /\ \E r \in CategoryResponses :
         LET cid == getCategoryId(r, Get(input[i], "category"))
         IN /\ resp' = [resp EXCEPT ![i] = [from |-> "getBlogCategories", value |-> r]]
            /\ categoryId' = Bind(categoryId, i, cid)
            /\ payload' = [payload EXCEPT ![i] =
                             IF tool[i] = "editBlogPost"
                             THEN Put(@, "blog_category_id", cid) ELSE @]
            /\ failed' = [failed EXCEPT ![i] =
                            IF LookupFailed("category", r, Get(input[i], "category"))
                            THEN @ \cup {"category"} ELSE @]
    /\ pc' = [pc EXCEPT ![i] = Continue("category")]
    /\ UNCHANGED <<stdioVars, tableVars, aiVars, serverVars, tool, input, customFields, cursor, userId, blogContentId, result, calls>>

\* the loop over Object.entries(custom_fields) looks at its next entry: a
\* string that looks like the path of a file that exists is asked about
ExamineField(i) ==
    /\ pc[i] = "fields"
    /\ LET entries == Entries(customFields[i])
       IN IF cursor[i] >= Len(entries)
          THEN /\ pc' = [pc EXCEPT ![i] = "write"]
               /\ UNCHANGED <<cursor, calls>>
          ELSE LET fieldValue == customFields[i].fields[entries[cursor[i] + 1]]
               IN \E existsSync \in BOOLEAN :
                    IF LooksLikeFile(fieldValue) /\ existsSync
                    THEN /\ calls' = Append(calls, Call(i, "login", <<>>))
                         /\ pc' = [pc EXCEPT ![i] = "awaitFieldLogin"]
                         /\ cursor' = cursor
                    ELSE /\ cursor' = [cursor EXCEPT ![i] = @ + 1]
                         /\ UNCHANGED <<pc, calls>>
    /\ resp' = [resp EXCEPT ![i] = NoResp]
    /\ UNCHANGED <<stdioVars, tableVars, aiVars, serverVars, tool, input, customFields, userId, blogContentId, categoryId,
                   payload, result, failed>>

\* the login of isFileField's own client settles; its rejection is caught
\* there and the field is left as it is
FieldLoginResponse(i) ==
    /\ pc[i] = "awaitFieldLogin"
    /\ \E r \in LoginResponses :
         /\ resp' = [resp EXCEPT ![i] = [from |-> "fieldLogin", value |-> r]]
         /\ IF IsError(r)
            THEN /\ cursor' = [cursor EXCEPT ![i] = @ + 1]
                 /\ pc' = [pc EXCEPT ![i] = "fields"]
                 /\ calls' = calls
            ELSE /\ calls' = Append(calls, Call(i, "getCustomLinks",
                                 <<Obj([custom_table_id |-> Get(input[i], "custom_table_id"),
                                        name |-> Str(Entries(customFields[i])[cursor[i] + 1]),
                                        contain |-> Str("CustomFields")])>>))
                 /\ pc' = [pc EXCEPT ![i] = "awaitCustomLinks"]
                 /\ cursor' = cursor
    /\ UNCHANGED <<stdioVars, tableVars, aiVars, serverVars, tool, input, customFields, userId, blogContentId, categoryId,
                   payload, result, failed>>

\* getCustomLinks settles and isFileField returns: a file field's path is
\* replaced in custom_fields by a stream reading the file
CustomLinksResponse(i) ==
    /\ pc[i] = "awaitCustomLinks"
    /\ \E r \in CustomLinkResponses :
         LET fieldName == Entries(customFields[i])[cursor[i] + 1]
         IN /\ resp' = [resp EXCEPT ![i] = [from |-> "getCustomLinks", value |-> r]]
            /\ customFields' = [customFields EXCEPT ![i] =
                                  IF Truthy(isFileField(r))
                                  THEN Put(@, fieldName, ReadStream(@.fields[fieldName]))
                                  ELSE @]
    /\ cursor' = [cursor EXCEPT ![i] = @ + 1]
    /\ pc' = [pc EXCEPT ![i] = "fields"]
    /\ UNCHANGED <<stdioVars, tableVars, aiVars, serverVars, tool, input, userId, blogContentId, categoryId, payload, result,
                   calls, failed>>

\* the remote create / edit / delete call is issued with the assembled object
Write(i) ==
    /\ pc[i] = "write"
    /\ IF tool[i] = "addBlogPost"
       THEN \E now \in Clock :
              LET data == AddBlogPostData(input[i], userId[i], blogContentId[i],
                                          categoryId[i], SqlTimestamp(now))
              IN /\ payload' = [payload EXCEPT ![i] = data]
                 /\ calls' = Append(calls, Call(i, "addBlogPost", <<data>>))
       ELSE IF tool[i] = "editBlogPost"
       THEN /\ payload' = payload
            /\ calls' = Append(calls, Call(i, "edit",
                            <<Obj([endpoint |-> Str("blogPosts"),
                                   id |-> StringOf(Get(input[i], "id")),
                                   data |-> payload[i],
                                   options |-> Obj([admin |-> Bool(TRUE)])])>>))
       ELSE IF tool[i] \in DeleteTools
       THEN /\ payload' = payload
            /\ calls' = Append(calls, Call(i, tool[i],
                            IF tool[i] = "deleteCustomEntry"
                            THEN <<Get(input[i], "custom_table_id"),
                                   StringOf(Get(input[i], "id"))>>
                            ELSE <<StringOf(Get(input[i], "id"))>>))
       ELSE IF tool[i] = "addCustomEntry"
       THEN \E now \in Clock :
              LET data == AddCustomEntryData(input[i], customFields[i], SqlTimestamp(now))
              IN /\ payload' = [payload EXCEPT ![i] = data]
                 /\ calls' = Append(calls, Call(i, "addCustomEntry",
                                 <<Get(input[i], "custom_table_id"), data>>))
       ELSE \E now \in Clock :
              LET data == EditData(tool[i], input[i], now)
              IN /\ payload' = [payload EXCEPT ![i] = data]
                 /\ calls' = Append(calls, Call(i, tool[i],
                                 <<StringOf(Get(input[i], "id")), data>>))
    /\ pc' = [pc EXCEPT ![i] = "awaitWrite"]
    /\ resp' = [resp EXCEPT ![i] = NoResp]
    /\ UNCHANGED <<stdioVars, tableVars, aiVars, serverVars, tool, input, customFields, cursor, userId, blogContentId, categoryId, result, failed>>

\* the create / edit call settles: its rejection leaves the handler as an error
WriteResponse(i) ==
    /\ pc[i] = "awaitWrite"
    /\ \E r \in WriteResponsesOf(tool[i]) :
         /\ resp' = [resp EXCEPT ![i] = [from |-> "write", value |-> r]]
         /\ pc' = [pc EXCEPT ![i] = EndOf(Outcome(tool[i], input[i], r))]
         /\ result' = [result EXCEPT ![i] = Outcome(tool[i], input[i], r)]
    /\ UNCHANGED <<stdioVars, tableVars, aiVars, serverVars, tool, input, customFields, cursor, userId, blogContentId, categoryId, payload, calls, failed>>

\* addCustomTable issues the create call of the table
CreateTable(i) ==
    /\ pc[i] = "createTable"
    /\ \E now \in Clock :
         LET data == AddCustomTableData(input[i], now)
         IN /\ payload' = [payload EXCEPT ![i] = data]
            /\ calls' = Append(calls, Call(i, "addCustomTable", <<data>>))
    /\ pc' = [pc EXCEPT ![i] = "awaitCreateTable"]
    /\ UNCHANGED <<stdioVars, tableVars, aiVars, serverVars, tool, input, customFields, cursor,
                   userId, blogContentId, categoryId, resp, result, failed>>

\* the create call settles: a rejection, no answer or an answer with errors
\* ends the handler with an error text; a created table is returned at once
\* when no field names were given, and otherwise its links are built
CreateTableResponse(i) ==
    /\ pc[i] = "awaitCreateTable"
    /\ \E r \in CustomTableResponses :
         LET names == Get(input[i], "custom_field_names")
             end == IF IsError(r) THEN Failure(tool[i], "write", r.msg)
                    ELSE IF ~Truthy(r) \/ Truthy(Get(r, "errors"))
                    THEN Failure(tool[i], "write",
                                 ErrorPrefix(tool[i]) \o
                                 Quote(Or(OptGet(r, "errors"), Str("Unknown error")).s))
                    ELSE IF Truthy(names) /\ Len(names.items) > 0
                    THEN NoResult
                    ELSE [kind |-> "return", text |-> Stringify(r)]
         IN /\ resp' = [resp EXCEPT ![i] = [from |-> "addCustomTable", value |-> r]]
            /\ result' = [result EXCEPT ![i] = end]
            /\ pc' = [pc EXCEPT ![i] = IF end = NoResult THEN "links" ELSE EndOf(end)]
            /\ customTable' = [customTable EXCEPT ![i] = IF IsError(r) THEN @ ELSE r]
    /\ UNCHANGED <<stdioVars, aiVars, serverVars, tool, input, customFields, cursor, customLinks,
                   userId, blogContentId, categoryId, payload, calls, failed>>

\* createCustomLinks looks the next field name up
LookupCustomField(i) ==
    /\ pc[i] = "links"
    /\ calls' = Append(calls, Call(i, "getCustomFields",
                    <<Obj([name |-> Get(input[i], "custom_field_names").items[cursor[i] + 1],
                           status |-> Num(1)])>>))
    /\ pc' = [pc EXCEPT ![i] = "awaitCustomFields"]
    /\ resp' = [resp EXCEPT ![i] = NoResp]
    /\ UNCHANGED <<stdioVars, tableVars, aiVars, serverVars, tool, input, customFields, cursor,
                   userId, blogContentId, categoryId, payload, result, failed>>

\* getCustomFields settles: the first field found becomes the link of this
\* position; a rejection is caught outside the loop, which ends there
CustomFieldsResponse(i) ==
    /\ pc[i] = "awaitCustomFields"
    /\ \E r \in CustomFieldResponses :
         /\ resp' = [resp EXCEPT ![i] = [from |-> "getCustomFields", value |-> r]]
         /\ customLinks' = [customLinks EXCEPT ![i] =
                               IF FoundFields(r)
                               THEN Put(@, LinkKey(cursor[i] + 1), CustomLink(r.items[1]))
                               ELSE @]
         /\ failed' = [failed EXCEPT ![i] =
                          IF IsError(r) THEN @ \cup {"customFields"} ELSE @]
         /\ pc' = [pc EXCEPT ![i] =
                      IF IsError(r) \/ cursor[i] + 1 >= Len(Get(input[i], "custom_field_names").items)
                      THEN "attach" ELSE "links"]
    /\ cursor' = [cursor EXCEPT ![i] = @ + 1]
    /\ UNCHANGED <<stdioVars, aiVars, serverVars, tool, input, customFields, customTable,
                   userId, blogContentId, categoryId, payload, result, calls>>

\* createCustomLinks has returned: with no link the table is returned with a
\* warning; otherwise the edit that attaches the links is issued (the id of a
\* table that has none cannot be read, which the try around the edit catches)
AttachLinks(i) ==
    /\ pc[i] = "attach"
    /\ LET table == customTable[i]
           links == customLinks[i]
           end == IF Keys(links) = {}
                  THEN [kind |-> "return",
                        text |-> Stringify(WithWarning(table, "no custom link was created"))]
                  ELSE IF IsNullish(Get(table, "id"))
                  THEN [kind |-> "return",
                        text |-> Stringify(EditFailed(table, links,
                                     "Cannot read properties of undefined"))]
                  ELSE NoResult
       IN /\ result' = [result EXCEPT ![i] = end]
          /\ pc' = [pc EXCEPT ![i] = IF end = NoResult THEN "awaitEditTable" ELSE "returned"]
          /\ IF end = NoResult
             THEN LET updateData == Obj([custom_links |-> JsonRoundTrip(links)])
                  IN /\ payload' = [payload EXCEPT ![i] = updateData]
                     /\ calls' = Append(calls, Call(i, "editCustomTable",
                                     <<StringOf(Get(table, "id")), updateData>>))
             ELSE UNCHANGED <<payload, calls>>
    /\ resp' = [resp EXCEPT ![i] = NoResp]
    /\ UNCHANGED <<stdioVars, tableVars, aiVars, serverVars, tool, input, customFields, cursor,
                   userId, blogContentId, categoryId, failed>>

\* editCustomTable settles: its answer is returned; its rejection is caught
\* and the created table is returned with a warning
EditTableResponse(i) ==
    /\ pc[i] = "awaitEditTable"
    /\ \E r \in EditTableResponses :
         /\ resp' = [resp EXCEPT ![i] = [from |-> "editCustomTable", value |-> r]]
         /\ result' = [result EXCEPT ![i] =
                          [kind |-> "return",
                           text |-> IF IsError(r)
                                    THEN Stringify(EditFailed(customTable[i],
                                                              customLinks[i], r.msg))
                                    ELSE Stringify(r)]]
    /\ pc' = [pc EXCEPT ![i] = "returned"]
    /\ UNCHANGED <<stdioVars, tableVars, aiVars, serverVars, tool, input, customFields, cursor,
                   userId, blogContentId, categoryId, payload, calls, failed>>

\* one step of an addCustomTable invocation
TableStep(i) ==
    \/ Start(i)
    \/ LoginResponse(i)
    \/ CreateTable(i)
    \/ CreateTableResponse(i)
    \/ LookupCustomField(i)
    \/ CustomFieldsResponse(i)
    \/ AttachLinks(i)
    \/ EditTableResponse(i)

\* one step of invocation i: the code between two awaits
Step(i) ==
    \/ Start(i)
    \/ LoginResponse(i)
    \/ ResolveUser(i)
    \/ UserLookupResponse(i)
    \/ ResolveBlogContent(i)
    \/ BlogContentLookupResponse(i)
    \/ ResolveCategory(i)
    \/ CategoryLookupResponse(i)
    \/ ExamineField(i)
    \/ FieldLoginResponse(i)
    \/ CustomLinksResponse(i)
    \/ Write(i)
    \/ WriteResponse(i)

Next == \E i \in Invs : Step(i)

Spec == Init /\ [][Next]_vars

\* addBlogPost alone, every remote call settling and every continuation then running
InitAddBlogPost == Init /\ \A i \in Invs : pc[i] = "start" => tool[i] = "addBlogPost"

\* the invocations whose awaits are followed to their end under fairness:
\* addBlogPost, and addCustomEntry with its per-field lookups
InitFair ==
    Init /\ \A i \in Invs : pc[i] = "start" => tool[i] \in {"addBlogPost", "addCustomEntry"}

FairSpec == InitFair /\ [][Next]_vars /\ \A i \in Invs : WF_vars(Step(i))

(* Two blog post invocations, or one and an addCustomEntry invocation, in    *)
(* flight at once: the server awaits no handler before it dispatches the    *)
(* next request, so their steps interleave at the awaits.                   *)

ConcurrentFirst ==
    {[tool |-> "addBlogPost",
      input |-> Obj([title |-> Str("T"), detail |-> Str("D"), category |-> Str("News")])],
     [tool |-> "editBlogPost",
      input |-> Obj([id |-> Num(9), blog_content |-> Str("News")])],
     [tool |-> "editBlogPost",
      input |-> Obj([id |-> Num(9), email |-> Str("u@x")])],
     [tool |-> "addCustomEntry",
      input |-> Obj([custom_table_id |-> Num(2), title |-> Str("T"),
                     custom_fields |-> Obj([image |-> FilePath])])]}

ConcurrentSecond ==
    {[tool |-> "addBlogPost",
      input |-> Obj([title |-> Str("T"), detail |-> Str("D"), email |-> Str("u@x")])],
     [tool |-> "editBlogPost",
      input |-> Obj([id |-> Num(9), email |-> Str("u@x")])],
     [tool |-> "editBlogPost",
      input |-> Obj([id |-> Num(9), user_id |-> Num(5), blog_content_id |-> Num(7)])],
     [tool |-> "editBlogPost",
      input |-> Obj([id |-> Num(9), category |-> Str("News"),
                     blog_category_id |-> Num(3)])]}

InitConcurrent ==
    /\ Serving
    /\ \E first \in ConcurrentFirst, second \in ConcurrentSecond :
          Launch(<<first, second>>)

ConcSpec == InitConcurrent /\ [][Next]_vars

(* The server's start and its dispatch of requests. *)

InitStartup ==
    /\ registered = <<>>
    /\ phase = "registering"
    /\ requests = <<>>
    /\ openaiKey = Undefined
    /\ NoOpenAI
    /\ NoStdio
    /\ Launch(<<NotInvoked, NotInvoked>>)

\* allTools.forEach(tool => server.registerTool(tool.name, ...)): the next tool
\* is registered; registering a name a second time throws, and main rejects
RegisterTool ==
    /\ phase = "registering"
    /\ Len(registered) < Len(AllTools)
    /\ LET name == AllTools[Len(registered) + 1]
       IN IF name \in NamesIn(registered)
          THEN phase' = "failed" /\ registered' = registered
          ELSE phase' = phase /\ registered' = Append(registered, name)
    /\ UNCHANGED <<stdioVars, aiVars, handlerVars, requests>>

\* await server.connect(stdioTransport)
Connect ==
    /\ phase = "registering"
    /\ Len(registered) = Len(AllTools)
    /\ phase' = "connected"
    /\ UNCHANGED <<stdioVars, aiVars, handlerVars, registered, requests>>

\* a tools/call request for a name: the server hands it to the handler
\* registered under that name, or answers that it has no such tool
CallTool ==
    /\ phase = "connected"
    /\ Len(requests) < MaxRequests
    /\ \E name \in RequestedNames :
         requests' = Append(requests,
                            [name |-> name, handled |-> name \in NamesIn(registered)])
    /\ UNCHANGED <<stdioVars, aiVars, handlerVars, registered, phase>>

(* The OpenAIService. *)

InitOpenAI ==
    /\ registered = AllTools
    /\ phase = "connected"
    /\ requests = <<>>
    /\ openaiKey \in ApiKeys
    /\ NoOpenAI
    /\ NoStdio
    /\ Launch(<<NotInvoked, NotInvoked>>)

\* new OpenAIService(): the constructor builds the library's client; what
\* the library does with an undefined apiKey is the library's (it may throw)
Construct ==
    /\ service = "none"
    /\ \E built \in BOOLEAN :
         /\ openaiKey # Undefined => built
         /\ service' = IF built THEN "constructed" ELSE "failed"
    /\ UNCHANGED <<stdioVars, handlerVars, serverVars, openaiKey, generating, generated, completions>>

\* a generate method is called: without a key it returns its local text at
\* once, with a key it asks the text-generation service and awaits the answer
Generate ==
    /\ service = "constructed"
    /\ generating = NotGenerating
    /\ Len(completions) < MaxGenerations
    /\ \E method \in {"generateDetail", "generateSummary"}, text \in Texts :
         IF ~isAvailable(openaiKey)
         THEN /\ generated' = [kind |-> "return", method |-> method, arg |-> text,
                               value |-> IF method = "generateDetail"
                                         THEN LocalDetail(text)
                                         ELSE LocalSummary(text)]
              /\ UNCHANGED <<generating, completions>>
         ELSE /\ generating' = [method |-> method, arg |-> text]
              /\ completions' = Append(completions, [method |-> method, arg |-> text])
              /\ generated' = generated
    /\ UNCHANGED <<stdioVars, handlerVars, serverVars, openaiKey, service>>

\* chat.completions.create settles: the method returns the content of the
\* first choice, or '' when there is none; a rejection leaves the method
Completion ==
    /\ generating # NotGenerating
    /\ \E r \in CompletionResponses :
         generated' = IF IsError(r)
                      THEN [kind |-> "throw", method |-> generating.method,
                            arg |-> generating.arg, error |-> r]
                      ELSE [kind |-> "return", method |-> generating.method,
                            arg |-> generating.arg, value |-> ContentOf(r)]
    /\ generating' = NotGenerating
    /\ UNCHANGED <<stdioVars, handlerVars, serverVars, openaiKey, service, completions>>

OpenAINext == Construct \/ Generate \/ Completion

OpenAISpec == InitOpenAI /\ [][OpenAINext]_vars

(* addCustomTable *)

InitAddCustomTable ==
    /\ Serving
    /\ \E inp \in AddCustomTableInputs :
         Launch(<<[tool |-> "addCustomTable", input |-> inp], NotInvoked>>)

TableNext == \E i \in Invs : TableStep(i)

TableSpec == InitAddCustomTable /\ [][TableNext]_vars

(* The stdin loop. *)

InitStdin ==
    /\ registered = AllTools
    /\ phase = "connected"
    /\ requests = <<>>
    /\ openaiKey = Undefined
    /\ NoOpenAI
    /\ Launch(<<NotInvoked, NotInvoked>>)
    /\ stdin \in InputTexts
    /\ received = <<>>
    /\ buffer = <<>>
    /\ taken = <<>>
    /\ awaiting = {}
    /\ stdout = <<>>

\* the loop has run to `after`: the state it leaves, with the handler that
\* stands at an await added to those that already do
Suspend(after, others) ==
    /\ buffer' = after.buffer
    /\ taken' = after.taken
    /\ stdout' = after.stdout
    /\ IF after.at = NotAwaiting
       THEN awaiting' = others
       ELSE \E settling \in SettlingOf(after.at.input) :
              awaiting' = others \cup {[line |-> after.at.line,
                                        input |-> after.at.input,
                                        settling |-> settling]}

\* a 'data' event: standard input delivers a chunk, and a new call of the
\* handler appends it to the buffer and runs the loop to its first await
DataEvent ==
    /\ stdin # <<>>
    /\ Microtasks = {}
    /\ \E n \in 1..Len(stdin) :
         LET chunk == SubSeq(stdin, 1, n)
         IN /\ stdin' = SubSeq(stdin, n + 1, Len(stdin))
            /\ received' = received \o chunk
            /\ Suspend(Loop(buffer \o chunk, taken, stdout), awaiting)
    /\ UNCHANGED <<handlerVars, serverVars, aiVars>>

\* handleRequest settles for a handler that awaits it: the handler writes the
\* result (or the error) and runs the loop on to its next await
Settle ==
    /\ \E w \in awaiting :
         /\ w \in Microtasks \/ Microtasks = {}
         /\ \E o \in OutcomesOf(w.input, w.settling) :
              LET written == IF IsError(o) THEN OnCatch(w.line, o)
                             ELSE WriteLine(w.line, o)
              IN Suspend(Loop(buffer, taken, stdout \o written), awaiting \ {w})
    /\ UNCHANGED <<handlerVars, serverVars, aiVars, stdin, received>>

StdinNext == DataEvent \/ Settle

StdinSpec == InitStdin /\ [][StdinNext]_vars

\* every promise that is awaited settles
StdinFairSpec == StdinSpec /\ WF_vars(Settle)

StartupNext == RegisterTool \/ Connect \/ CallTool

StartupSpec == InitStartup /\ [][StartupNext]_vars

----------------------------------------------------------------------------
(* What the claims speak of. *)

WriteOps == {"addBlogPost", "edit", "addCustomEntry"} \cup EditTools \cup DeleteTools

\* the positions in calls of the create / edit calls invocation i issued
IssuedWrites(i) ==
    {j \in 1..Len(calls) : calls[j].inv = i /\ calls[j].op \in WriteOps}

\* the positions in calls of the calls named op that invocation i issued
IssuedCalls(i, op) ==
    {j \in 1..Len(calls) : calls[j].inv = i /\ calls[j].op = op}

\* the object invocation i handed to its create / edit call
SentData(i) ==
    LET c == calls[CHOOSE j \in IssuedWrites(i) : TRUE]
    IN CASE c.op = "edit" -> c.args[1].fields.data
         [] c.op = "addBlogPost" -> c.args[1]
         [] OTHER -> c.args[2]

\* the first candidate of list l that satisfies Match(_)
FirstOf(l, Match(_)) ==
    l[CHOOSE j \in 1..Len(l) : Match(l[j]) /\ \A h \in 1..(j - 1) : ~Match(l[h])]

AnyOf(l, Match(_)) == \E j \in 1..Len(l) : Match(l[j])

----------------------------------------------------------------------------
(* C1 *)

OnlyIdAndTitle(i) ==
    tool[i] = "editBlogPost" /\ Keys(input[i]) = {"id", "title"}

----------------------------------------------------------------------------
(* C2 *)

CreateCalls(i) == IssuedCalls(i, "addBlogPost")

\* the invocations that Init launches (the other is never invoked)
Launched == {1}

\* the addBlogPost invocation i has a valid input and its login succeeded
AddLoggedIn(i) == tool[i] = "addBlogPost" /\ pc[i] = "user"

\* the create call of addBlogPost carries the caller's title and detail, and
\* the default in the place of every reference whose lookup failed
C2_Payload(i) ==
    LET d == SentData(i)
    IN /\ Get(d, "title") = Get(input[i], "title")
       /\ Get(d, "detail") = Get(input[i], "detail")
       /\ "user" \in failed[i] => Get(d, "user_id") = Num(1)
       /\ "blogContent" \in failed[i] => Get(d, "blog_content_id") = Num(1)
       /\ "category" \in failed[i] =>
              "blog_category_id" \in Keys(d) /\ Get(d, "blog_category_id") = Null

\* C2: an addBlogPost invocation with non-empty title and detail whose login
\* succeeded eventually issues the create call, and issues it once, whichever
\* of the user, blog content and category lookups throw or find nothing; the
\* object it sends holds the caller's title and detail and the default (user_id
\* 1, blog_content_id 1, blog_category_id null) for every failed reference.
C2_CreateStillIssued ==
    /\ \A i \in Launched : AddLoggedIn(i) ~> (Cardinality(CreateCalls(i)) = 1)
    /\ [](\A i \in Invs :
            tool[i] = "addBlogPost" =>
                /\ Cardinality(CreateCalls(i)) <= 1
                /\ CreateCalls(i) # {} => C2_Payload(i))

C2_Witness ==
    \E i \in Invs :
        /\ tool[i] = "addBlogPost"
        /\ failed[i] = {"user", "blogContent", "category"}
        /\ Cardinality(CreateCalls(i)) = 1

----------------------------------------------------------------------------
(* C3 *)

\* getBlogContentId has just returned for the candidate list in resp[i]
BlogContentListed(i) ==
    resp[i].from = "getBlogContents" /\ IsArray(resp[i].value)

\* every candidate of list l carries a non-zero id
AllCarryIds(l) == \A j \in 1..Len(l) : Truthy(Get(l[j], "id"))

\* C3, as stated (on the lists whose candidates all carry an id):
\* getBlogContentId returns the id of the first candidate whose title equals
\* the blog content name, and 1 when no candidate's title does.
C3_ExactTitleMatch ==
    \A i \in Invs :
        BlogContentListed(i) /\ AllCarryIds(resp[i].value.items) =>
            LET name == Get(input[i], "blog_content")
                TitleIs(c) == Get(c, "title") = name
                l == resp[i].value.items
            IN blogContentId[i] =
                  IF AnyOf(l, TitleIs) THEN Get(FirstOf(l, TitleIs), "id") ELSE Num(1)

----------------------------------------------------------------------------
(* C4 *)

\* C4, as stated: in editBlogPost without blog_category_id, a category whose
\* lookup throws or finds no match leaves blog_category_id out of the update
\* object, as omitting the category does.
C4_UnresolvedAsAbsent ==
    \A i \in Invs :
        /\ tool[i] = "editBlogPost"
        /\ Get(input[i], "blog_category_id") = Undefined
        /\ "category" \in failed[i]
        /\ IssuedWrites(i) # {}
        => "blog_category_id" \notin Keys(SentData(i))

----------------------------------------------------------------------------
(* C5 *)

\* C5: when the lookup call of getUserId, getBlogContentId or getCategoryId
\* rejects, the resolver returns its default (1, 1, null) and the handler goes
\* on to its next step with no error outcome.
C5_LookupErrorAbsorbed ==
    \A i \in Invs :
        /\ resp[i].from = "getUserByEmail" /\ IsError(resp[i].value) =>
               userId[i] = Num(1) /\ pc[i] = "blogContent" /\ result[i] = NoResult
        /\ resp[i].from = "getBlogContents" /\ IsError(resp[i].value) =>
               blogContentId[i] = Num(1) /\ pc[i] = "category" /\ result[i] = NoResult
        /\ resp[i].from = "getBlogCategories" /\ IsError(resp[i].value) =>
               categoryId[i] = Null /\ pc[i] = "write" /\ result[i] = NoResult

C5_Witness ==
    \E i \in Invs :
        /\ resp[i].from = "getBlogCategories"
        /\ IsError(resp[i].value)
        /\ {"user", "blogContent"} \subseteq failed[i]

----------------------------------------------------------------------------
(* C6 *)

\* C6, as stated: whatever the lookup answers, getUserId and getBlogContentId
\* return a number, never an absent value.
C6_AlwaysNumeric ==
    \A i \in Invs :
        /\ resp[i].from = "getUserByEmail" => userId[i].t = "number"
        /\ resp[i].from = "getBlogContents" => blogContentId[i].t = "number"

----------------------------------------------------------------------------
(* C7 *)

PastCategory == {"write", "awaitWrite", "returned"}
PastBlogContent == {"category", "awaitCategory"} \cup PastCategory
PastUser == {"blogContent", "awaitBlogContent"} \cup PastBlogContent

\* invocation i stands at one of the positions ps, or failed in its write
Reached(i, ps) == pc[i] \in ps \/ (pc[i] = "threw" /\ IssuedWrites(i) # {})

\* C7: called with an absent raw value (undefined or ''), getUserId returns 1,
\* getBlogContentId returns 1 and getCategoryId returns null, and no lookup
\* call for that reference is ever issued.
C7_AbsentShortCircuits ==
    \A i \in Invs :
        /\ tool[i] \in BlogPostTools /\ ~Truthy(Get(input[i], "email")) =>
               IssuedCalls(i, "getUserByEmail") = {}
        /\ tool[i] \in BlogPostTools /\ ~Truthy(Get(input[i], "blog_content")) =>
               IssuedCalls(i, "getBlogContents") = {}
        /\ tool[i] \in BlogPostTools /\ ~Truthy(Get(input[i], "category")) =>
               IssuedCalls(i, "getBlogCategories") = {}
        /\ tool[i] = "addBlogPost" =>
               /\ Reached(i, PastUser) /\ ~Truthy(Get(input[i], "email")) =>
                      userId[i] = Num(1)
               /\ Reached(i, PastBlogContent) /\ ~Truthy(Get(input[i], "blog_content")) =>
                      blogContentId[i] = Num(1)
               /\ Reached(i, PastCategory) /\ ~Truthy(Get(input[i], "category")) =>
                      categoryId[i] = Null

C7_Witness ==
    \E i \in Invs :
        /\ tool[i] = "addBlogPost"
        /\ Get(input[i], "email") = Str("")
        /\ Get(input[i], "blog_content") = Undefined
        /\ Get(input[i], "category") = Str("")
        /\ pc[i] = "returned"
        /\ Len(calls) = 2

----------------------------------------------------------------------------
(* C8 *)

\* getCategoryId has just returned for the candidate list in resp[i]
CategoryListed(i) ==
    resp[i].from = "getBlogCategories" /\ IsArray(resp[i].value)

\* C8, as stated: getCategoryId returns the id of the first candidate whose
\* name or title equals the category string, and null when none does.
C8_Original ==
    \A i \in Invs :
        CategoryListed(i) =>
            LET category == Get(input[i], "category")
                NameOrTitleIs(c) ==
                    Get(c, "name") = category \/ Get(c, "title") = category
                l == resp[i].value.items
            IN categoryId[i] =
                  IF AnyOf(l, NameOrTitleIs)
                  THEN Get(FirstOf(l, NameOrTitleIs), "id") ELSE Null

\* C8, amended: getCategoryId looks at the first candidate in list order whose
\* name or title equals the category string (a candidate matching on name wins
\* over a later one matching on title); it returns that candidate's id when the
\* id is a non-zero number, and null when that candidate carries no id or the
\* id 0, or when no candidate matches on either field.
C8_Amended ==
    \A i \in Invs :
        CategoryListed(i) =>
            LET category == Get(input[i], "category")
                NameOrTitleIs(c) ==
                    Get(c, "name") = category \/ Get(c, "title") = category
                l == resp[i].value.items
            IN categoryId[i] =
                  IF AnyOf(l, NameOrTitleIs)
                  THEN IF Get(FirstOf(l, NameOrTitleIs), "id") \in {Undefined, Num(0)}
                       THEN Null
                       ELSE Get(FirstOf(l, NameOrTitleIs), "id")
                  ELSE Null

\* the first candidate matches on its name only, the second on its title
C8_Witness ==
    \E i \in Invs :
        /\ CategoryListed(i)
        /\ Len(resp[i].value.items) = 2
        /\ LET category == Get(input[i], "category")
               l == resp[i].value.items
           IN /\ Get(l[1], "name") = category /\ Get(l[1], "title") # category
              /\ Get(l[2], "title") = category
              /\ Get(l[1], "id") = Num(3) /\ Get(l[2], "id") = Num(4)
              /\ categoryId[i] = Num(3)

----------------------------------------------------------------------------
(* C9 *)

\* v is new Date().toISOString().slice(0, 19).replace('T', ' ') of some instant
IsSqlTimestamp(v) ==
    /\ v.t = "chars"
    /\ Len(v.c) = 19
    /\ v.c[11] = " "
    /\ \E now \in Clock : \A j \in (1..19) \ {11} : v.c[j] = now.c[j]

OnlyTitleAndDetail(i) ==
    /\ tool[i] = "addBlogPost"
    /\ Keys(input[i]) = {"title", "detail"}

\* C9: addBlogPost invoked with only title and detail sends a create object
\* in which every field is present: blog_content_id 1, no null, name '',
\* content '', blog_category_id null, user_id 1, status 0, eye_catch '', a
\* posted timestamp, and the caller's title and detail.
C9_CreateDefaults ==
    \A i \in Invs :
        OnlyTitleAndDetail(i) /\ CreateCalls(i) # {} =>
            LET d == SentData(i)
            IN /\ Keys(d) = {"blog_content_id", "no", "name", "title", "content",
                             "detail", "blog_category_id", "user_id", "status",
                             "eye_catch", "posted"}
               /\ Get(d, "blog_content_id") = Num(1)
               /\ Get(d, "no") = Null
               /\ Get(d, "name") = Str("")
               /\ Get(d, "content") = Str("")
               /\ Get(d, "blog_category_id") = Null
               /\ Get(d, "user_id") = Num(1)
               /\ Get(d, "status") = Num(0)
               /\ Get(d, "eye_catch") = Str("")
               /\ IsSqlTimestamp(Get(d, "posted"))
               /\ Get(d, "title") = Get(input[i], "title")
               /\ Get(d, "detail") = Get(input[i], "detail")

C9_Witness ==
    \E i \in Invs :
        /\ OnlyTitleAndDetail(i)
        /\ Cardinality(CreateCalls(i)) = 1
        /\ pc[i] = "returned"

----------------------------------------------------------------------------
(* C10 *)

\* C10, as stated: in editBlogCategory, editBlogContent, editCustomLink and
\* editCustomField every key of the update object other than the modification
\* timestamp is a field the caller supplied, with the caller's value.
C10_Original ==
    \A i \in Invs :
        tool[i] \in EditTools /\ IssuedWrites(i) # {} =>
            \A k \in Keys(SentData(i)) \ {"modified"} :
                /\ k \in Keys(input[i])
                /\ Get(SentData(i), k) = Get(input[i], k)

\* C10, amended: in these four handlers every key of the update object other
\* than the modification timestamp is a field the caller supplied, and a field
\* omitted from the input is never present; the value is the caller's, except
\* that editBlogCategory writes blog_content_id 1 when the caller supplies
\* blog_content_id 0.
C10_Amended ==
    \A i \in Invs :
        tool[i] \in EditTools /\ IssuedWrites(i) # {} =>
            \A k \in Keys(SentData(i)) \ {"modified"} :
                /\ k \in Keys(input[i])
                /\ Get(SentData(i), k) =
                      IF /\ tool[i] = "editBlogCategory"
                         /\ k = "blog_content_id"
                         /\ Get(input[i], k) = Num(0)
                      THEN Num(1)
                      ELSE Get(input[i], k)

C10_Witness ==
    \E i \in Invs :
        /\ tool[i] = "editBlogCategory"
        /\ Keys(input[i]) = {"id", "title", "blog_content_id"}
        /\ Get(input[i], "blog_content_id") = Num(0)
        /\ pc[i] = "returned"
        /\ Keys(SentData(i)) = {"title", "blog_content_id"}

----------------------------------------------------------------------------
(* C11 *)

Absent(v, empty) == v = Undefined \/ v = empty

\* invocation i lacks an input its handler requires
MissingRequired(i) ==
    \/ /\ tool[i] = "addBlogPost"
       /\ \/ Absent(Get(input[i], "title"), Str(""))
          \/ Absent(Get(input[i], "detail"), Str(""))
    \/ /\ tool[i] \in {"editBlogPost", "deleteBlogPost"}
       /\ Absent(Get(input[i], "id"), Num(0))
    \/ /\ tool[i] = "addCustomEntry"
       /\ \/ Absent(Get(input[i], "custom_table_id"), Num(0))
          \/ Absent(Get(input[i], "title"), Str(""))

\* the handler threw, or returned a text that carries an error message
ErrorOutcome(i) ==
    \/ result[i].kind = "throw"
    \/ /\ result[i].kind = "return"
       /\ IsObject(result[i].text.of)
       /\ "error" \in Keys(result[i].text.of)

\* the calls invocation i issued to the remote service
CallsOf(i) == {j \in 1..Len(calls) : calls[j].inv = i}

\* C11: an addBlogPost invocation with an empty title or detail, an
\* editBlogPost or deleteBlogPost invocation with a missing or zero id and an
\* addCustomEntry invocation with a missing custom_table_id or title end in an
\* error outcome at their first step, and issue no login, lookup or write call.
C11_RejectedBeforeAnyCall ==
    \A i \in Invs :
        MissingRequired(i) =>
            /\ CallsOf(i) = {}
            /\ pc[i] \in {"start", "threw", "returned"}
            /\ pc[i] # "start" => ErrorOutcome(i)

C11_Witness ==
    \E i \in Invs :
        /\ tool[i] = "addCustomEntry"
        /\ Get(input[i], "custom_table_id") = Num(2)
        /\ Get(input[i], "title") = Undefined
        /\ pc[i] = "returned"
        /\ ErrorOutcome(i)

----------------------------------------------------------------------------
(* C12 *)

\* the create / edit call of invocation i has just rejected
WriteRejected(i) == resp[i].from = "write" /\ IsError(resp[i].value)

\* C12: when the create call of addBlogPost or the edit call of editBlogPost
\* rejects, the handler throws that error (it returns no result), and it has
\* issued the call exactly once; no blog post invocation ever issues its write
\* call a second time.
C12_WriteFailureSurfaces ==
    \A i \in Invs :
        tool[i] \in BlogPostTools =>
            /\ Cardinality(IssuedWrites(i)) <= 1
            /\ WriteRejected(i) =>
                   /\ pc[i] = "threw"
                   /\ result[i] = [kind |-> "throw", error |-> resp[i].value]
                   /\ Cardinality(IssuedWrites(i)) = 1

C12_Witness ==
    \E i \in Invs :
        /\ tool[i] = "editBlogPost"
        /\ WriteRejected(i)
        /\ pc[i] = "threw"
        /\ calls[Len(calls)].op = "edit"

----------------------------------------------------------------------------
(* C13 *)

\* the create call of the addBlogPost invocation i has just settled
CreateSettled(i) == tool[i] = "addBlogPost" /\ resp[i].from = "write"

\* C13: the result of an addBlogPost invocation is a function of the create
\* call's answer alone: the serialized answer when the call resolved, its error
\* when it rejected; it is the same whichever lookups succeeded, found nothing
\* or threw, and carries no mark of a failed lookup.
C13_LookupFailureInvisible ==
    \A i \in Invs :
        CreateSettled(i) =>
            result[i] = IF IsError(resp[i].value)
                        THEN [kind |-> "throw", error |-> resp[i].value]
                        ELSE [kind |-> "return", text |-> Stringify(resp[i].value)]

\* every lookup failed, and the caller is handed the created post
C13_Witness ==
    \E i \in Invs :
        /\ CreateSettled(i)
        /\ failed[i] = {"user", "blogContent", "category"}
        /\ result[i] = [kind |-> "return", text |-> Stringify(Obj([id |-> Num(9)]))]

----------------------------------------------------------------------------
(* C14 *)

\* the read / list calls of the SDK
ReadOps == {"getUserByEmail", "getBlogContents", "getBlogCategories"}

\* the positions of a blog post handler from its first resolver's start to
\* its last resolver's return
Resolving ==
    {"user", "awaitUser", "blogContent", "awaitBlogContent", "category",
     "awaitCategory", "write"}

\* the remote operations invocation i has issued
OpsOf(i) == {calls[j].op : j \in CallsOf(i)}

\* C14: from the start of getUserId to the return of getCategoryId, whether
\* the lookups resolve or reject, a blog post handler has issued nothing but
\* its login and read / list calls: no create, update or delete call.
C14_ResolutionReadOnly ==
    \A i \in Invs :
        tool[i] \in BlogPostTools /\ pc[i] \in Resolving =>
            OpsOf(i) \subseteq {"login"} \cup ReadOps

\* the three resolvers have returned, the last one after its lookup rejected
C14_Witness ==
    \E i \in Invs :
        /\ tool[i] = "addBlogPost"
        /\ pc[i] = "write"
        /\ resp[i].from = "getBlogCategories" /\ IsError(resp[i].value)
        /\ OpsOf(i) = {"login"} \cup ReadOps

----------------------------------------------------------------------------
(* C15 *)

\* what invocation i holds: its ids, its update object, its outcome, its calls
LocalsOf(i) ==
    <<userId[i], blogContentId[i], categoryId[i], payload[i], customFields[i],
      result[i], failed[i], SelectSeq(calls, LAMBDA c : c.inv = i)>>

\* the step taken is not one of invocation i
Stands(i) == pc'[i] = pc[i] /\ cursor'[i] = cursor[i] /\ resp'[i] = resp[i]

\* the ids invocation i holds come from the answers to its own lookups
OwnAnswers(i) ==
    /\ resp[i].from = "getUserByEmail" => userId[i] = getUserId(resp[i].value)
    /\ resp[i].from = "getBlogContents" =>
           blogContentId[i] = getBlogContentId(resp[i].value)
    /\ resp[i].from = "getBlogCategories" =>
           categoryId[i] = getCategoryId(resp[i].value, Get(input[i], "category"))

\* the object invocation i wrote is assembled from its own input and ids
OwnPayload(i) ==
    /\ tool[i] = "addBlogPost" =>
           \E now \in Clock :
               SentData(i) = AddBlogPostData(input[i], userId[i], blogContentId[i],
                                             categoryId[i], SqlTimestamp(now))
    /\ tool[i] = "editBlogPost" =>
           LET d == SentData(i)
           IN /\ \A k \in Keys(EditBlogPostBasics(input[i])) :
                      Get(d, k) = Get(input[i], k)
              /\ "user_id" \in Keys(d) => Get(d, "user_id") = userId[i]
              /\ Get(d, "blog_content_id") = blogContentId[i]
              /\ "blog_category_id" \in Keys(d) =>
                     Get(d, "blog_category_id") = categoryId[i]

\* C15: with two invocations in flight and their steps interleaved in any
\* order, a step of one invocation leaves everything the other holds as it
\* was; the ids an invocation holds are those its own lookups answered, and
\* the object it writes is assembled from its own input and its own ids.
C15_InvocationsIndependent ==
    /\ [][\A i \in Invs : Stands(i) => LocalsOf(i)' = LocalsOf(i)]_vars
    /\ [](\A i \in Invs :
            /\ OwnAnswers(i)
            /\ tool[i] \in BlogPostTools /\ IssuedWrites(i) # {} => OwnPayload(i))

\* both invocations have written, their calls interleaved, with different ids
C15_Witness ==
    /\ \A i \in Invs : tool[i] \in BlogPostTools /\ IssuedWrites(i) # {}
    /\ userId[1] # userId[2]
    /\ blogContentId[1] # blogContentId[2]
    /\ \E a, b, c, d \in 1..Len(calls) :
          /\ a < b /\ b < c /\ c < d
          /\ calls[a].inv = 1 /\ calls[b].inv = 2
          /\ calls[c].inv = 1 /\ calls[d].inv = 2

----------------------------------------------------------------------------
(* C16 *)

\* the place of each remote operation in the order the claim gives
Rank(op) ==
    CASE op = "login" -> 1
      [] op = "getUserByEmail" -> 2
      [] op = "getBlogContents" -> 3
      [] op = "getBlogCategories" -> 4
      [] op = "addBlogPost" -> 5
      [] OTHER -> 0

\* the positions at which a handler waits for a remote call to settle
Awaiting == {"login", "awaitUser", "awaitBlogContent", "awaitCategory", "awaitWrite"}

\* the calls of invocation i were issued in the order of their ranks
InOrder(i) ==
    \A a, b \in CallsOf(i) : a < b => Rank(calls[a].op) < Rank(calls[b].op)

\* invocation i has logged in and has looked up every reference it was given
AllResolved(i) ==
    /\ "login" \in OpsOf(i)
    /\ Truthy(Get(input[i], "email")) => "getUserByEmail" \in OpsOf(i)
    /\ Truthy(Get(input[i], "blog_content")) => "getBlogContents" \in OpsOf(i)
    /\ Truthy(Get(input[i], "category")) => "getBlogCategories" \in OpsOf(i)

\* a step issues at most one call, issues it when no call of the invocation is
\* outstanding, and then waits for it; a wait ends only by the call settling
OneOutstanding(i) ==
    /\ Cardinality(CallsOf(i))' - Cardinality(CallsOf(i)) \in {0, 1}
    /\ Cardinality(CallsOf(i))' # Cardinality(CallsOf(i)) =>
           pc[i] \notin Awaiting /\ pc'[i] \in Awaiting
    /\ pc[i] \in Awaiting /\ pc'[i] # pc[i] =>
           pc'[i] \notin Awaiting /\ resp'[i] # NoResp

\* C16: an addBlogPost invocation issues its remote calls in the order login,
\* user lookup, blog content lookup, category lookup, create; it issues a call
\* only when its previous call has settled, so it never has two outstanding;
\* and when it issues the create call it has logged in and every lookup of a
\* supplied reference has been issued and has settled.
C16_StrictlySequenced ==
    /\ [](\A i \in Invs :
            tool[i] = "addBlogPost" =>
                /\ InOrder(i)
                /\ CreateCalls(i) # {} => AllResolved(i))
    /\ [][\A i \in Invs : tool[i] = "addBlogPost" => OneOutstanding(i)]_vars

C16_Witness ==
    \E i \in Invs :
        /\ tool[i] = "addBlogPost"
        /\ pc[i] = "returned"
        /\ [j \in 1..Len(calls) |-> calls[j].op] =
              <<"login", "getUserByEmail", "getBlogContents", "getBlogCategories",
                "addBlogPost">>

----------------------------------------------------------------------------
(* C17 *)

\* invocation i issued each kind of lookup at most once
AtMostOnce(i) == \A op \in ReadOps : Cardinality(IssuedCalls(i, op)) <= 1

\* editBlogPost was not handed the id itself in the input field k
NoDirectId(i, k) == tool[i] = "addBlogPost" \/ Get(input[i], k) = Undefined

----------------------------------------------------------------------------
(* C18 *)

\* the blog content lookup of invocation i has just found a blog content
BlogContentFound(i) ==
    /\ BlogContentListed(i)
    /\ resp[i].value.items # <<>>
    /\ Truthy(Get(resp[i].value.items[1], "id"))

\* the category lookup of invocation i has just found the category it was
\* asked for: a candidate with that name or title, and with an id
CategoryFound(i) ==
    /\ CategoryListed(i)
    /\ LET NamedSo(c) == Get(c, "name") = Get(input[i], "category")
                           \/ Get(c, "title") = Get(input[i], "category")
       IN /\ AnyOf(resp[i].value.items, NamedSo)
          /\ Truthy(Get(FirstOf(resp[i].value.items, NamedSo), "id"))

\* the category candidate the lookup of invocation i matched
MatchedCategory(i) ==
    LET NamedSo(c) == Get(c, "name") = Get(input[i], "category")
                        \/ Get(c, "title") = Get(input[i], "category")
    IN FirstOf(resp[i].value.items, NamedSo)

\* C18: in addBlogPost, a blog content lookup that finds a blog content gives
\* the handler that blog content's id, a category lookup that finds the
\* category gives it the matched category's id, and the create object carries
\* the two ids the handler holds as blog_content_id and blog_category_id.
C18_ResolvedIdsWritten ==
    \A i \in Invs :
        tool[i] = "addBlogPost" =>
            /\ BlogContentFound(i) =>
                   blogContentId[i] = Get(resp[i].value.items[1], "id")
            /\ CategoryFound(i) =>
                   categoryId[i] = Get(MatchedCategory(i), "id")
            /\ CreateCalls(i) # {} =>
                   /\ Get(SentData(i), "blog_content_id") = blogContentId[i]
                   /\ Get(SentData(i), "blog_category_id") = categoryId[i]

\* both names resolved, and the post is created with the looked-up ids
C18_Witness ==
    \E i \in Invs :
        /\ tool[i] = "addBlogPost"
        /\ pc[i] = "returned"
        /\ failed[i] = {}
        /\ {"getBlogContents", "getBlogCategories"} \subseteq OpsOf(i)
        /\ Get(SentData(i), "blog_content_id") = Num(7)
        /\ Get(SentData(i), "blog_category_id") = Num(4)

----------------------------------------------------------------------------
(* C19 *)

\* no name stands twice in the registry
NoDuplicates(seq) == \A a, b \in 1..Len(seq) : seq[a] = seq[b] => a = b

\* C19, as stated: once the server is connected, every tool name the README
\* lists (getIndexCustomFields among them) is registered, so that every call
\* for a listed name is handed to a handler; and no name is registered twice.
C19_EveryListedToolRegistered ==
    /\ NoDuplicates(registered)
    /\ phase # "failed"
    /\ phase = "connected" => ReadmeTools \subseteq NamesIn(registered)
    /\ \A k \in 1..Len(requests) :
          requests[k].name \in ReadmeTools => requests[k].handled

----------------------------------------------------------------------------
(* C20 *)

\* OPENAI_API_KEY is not set (or is set to the empty string)
KeyNotSet == openaiKey \in {Undefined, Str("")}

\* the first n characters of a text, fewer when it is shorter
FirstChars(text, n) ==
    SubSeq(text.c, 1, IF Len(text.c) < n THEN Len(text.c) ELSE n)

\* the last generate call returned the text built from its argument alone
BuiltLocally ==
    /\ generated.kind = "return"
    /\ generated.method = "generateDetail" =>
         generated.value.c = <<"<", "p", ">">> \o generated.arg.c \o <<"*", "<", "/", "p", ">">>
    /\ generated.method = "generateSummary" =>
         generated.value.c = FirstChars(generated.arg, SummaryLength) \o <<".", ".", ".">>

\* C20: when OPENAI_API_KEY is not set, generateDetail and generateSummary
\* issue no request to the text-generation service, never wait for it, never
\* throw, and return a string built from their argument alone.
C20_NoKeySkipsGeneration ==
    KeyNotSet =>
        /\ completions = <<>>
        /\ generating = NotGenerating
        /\ generated # NoResult => BuiltLocally

\* C20 witness: without a key, generateSummary has returned the first 100
\* characters of a longer detail followed by "...".
C20_Witness ==
    /\ openaiKey = Undefined
    /\ service = "constructed"
    /\ generated # NoResult
    /\ generated.method = "generateSummary"
    /\ Len(generated.arg.c) > SummaryLength
    /\ Len(generated.value.c) = SummaryLength + 3
    /\ completions = <<>>

----------------------------------------------------------------------------
(* C23 *)

\* the id fields of editBlogPost, each with the name it overrides and the
\* lookup that resolves the name
DirectIds ==
    {[id |-> "user_id", name |-> "email", op |-> "getUserByEmail"],
     [id |-> "blog_content_id", name |-> "blog_content", op |-> "getBlogContents"],
     [id |-> "blog_category_id", name |-> "category", op |-> "getBlogCategories"]}

\* C23: in editBlogPost an id that is supplied directly wins over the name:
\* with user_id supplied no user lookup is ever issued and the edit carries the
\* supplied user_id, whatever email holds; likewise blog_content_id over
\* blog_content and blog_category_id over category.
C23_DirectIdWins ==
    \A i \in Invs : \A f \in DirectIds :
        tool[i] = "editBlogPost" /\ Get(input[i], f.id) # Undefined =>
            /\ IssuedCalls(i, f.op) = {}
            /\ IssuedWrites(i) # {} => Get(SentData(i), f.id) = Get(input[i], f.id)

\* C23 witness: an edit with both blog_category_id and category was written
\* with the supplied id, without a category lookup.
C23_Witness ==
    \E i \in Invs :
        /\ tool[i] = "editBlogPost"
        /\ Get(input[i], "blog_category_id") = Num(3)
        /\ Get(input[i], "category") = Str("News")
        /\ pc[i] = "returned"
        /\ IssuedCalls(i, "getBlogCategories") = {}
        /\ Get(SentData(i), "blog_category_id") = Num(3)

----------------------------------------------------------------------------
(* C26 *)

\* the blog content ids that the category lookups of invocation i were scoped by
ScopesOf(i) == {calls[j].args[1] : j \in IssuedCalls(i, "getBlogCategories")}

\* C26: in addBlogPost and editBlogPost every category lookup is scoped by the
\* blog content id the invocation resolved, and the create / edit object
\* carries that same id as blog_content_id; the resolved id is the supplied
\* blog_content_id when editBlogPost is given one, 1 when no blog content name
\* is given either, and 1 when the blog content lookup raised an error.
C26_ScopeIsPayloadBlogContent ==
    \A i \in Invs :
        tool[i] \in BlogPostTools =>
            /\ ScopesOf(i) \subseteq {blogContentId[i]}
            /\ IssuedWrites(i) # {} =>
                   Get(SentData(i), "blog_content_id") = blogContentId[i]
            /\ Reached(i, PastBlogContent) =>
                   /\ ~NoDirectId(i, "blog_content_id") =>
                          blogContentId[i] = Get(input[i], "blog_content_id")
                   /\ NoDirectId(i, "blog_content_id")
                        /\ ~Truthy(Get(input[i], "blog_content")) =>
                          blogContentId[i] = Num(DefaultBlogContentId)
            /\ resp[i].from = "getBlogContents" /\ IsError(resp[i].value) =>
                   blogContentId[i] = Num(DefaultBlogContentId)

\* C26 witness: an edit looked its blog content up, scoped its category lookup
\* by the id it found, and was written with that id.
C26_Witness ==
    \E i \in Invs :
        /\ tool[i] = "editBlogPost"
        /\ pc[i] = "returned"
        /\ IssuedCalls(i, "getBlogContents") # {}
        /\ ScopesOf(i) = {Num(7)}
        /\ Get(SentData(i), "blog_content_id") = Num(7)

----------------------------------------------------------------------------
(* C27 *)

\* the user lookup of invocation i has just raised an error or found no user
UserNotFound(i) ==
    /\ resp[i].from = "getUserByEmail"
    /\ IsError(resp[i].value) \/ IsNullish(resp[i].value)

\* C27: in editBlogPost without user_id, a user lookup that raises or finds no
\* user leaves the handler running with user_id 1 in its update object, and
\* the edit that follows carries user_id 1 whenever the lookup of a supplied
\* email failed; with neither email nor user_id the edit carries no user_id.
C27_EditUserFallback ==
    \A i \in Invs :
        tool[i] = "editBlogPost" /\ Get(input[i], "user_id") = Undefined =>
            /\ UserNotFound(i) =>
                   /\ pc[i] = "blogContent"
                   /\ Get(payload[i], "user_id") = Num(DefaultUserId)
            /\ IssuedWrites(i) # {} /\ "user" \in failed[i] =>
                   Get(SentData(i), "user_id") = Num(DefaultUserId)
            /\ IssuedWrites(i) # {} /\ ~Truthy(Get(input[i], "email")) =>
                   "user_id" \notin Keys(SentData(i))

\* C27 witness: the lookup of the supplied email failed and the edit was
\* written with user_id 1.
C27_Witness ==
    \E i \in Invs :
        /\ tool[i] = "editBlogPost"
        /\ Get(input[i], "email") = Str("u@x")
        /\ "user" \in failed[i]
        /\ pc[i] = "returned"
        /\ Get(SentData(i), "user_id") = Num(1)

----------------------------------------------------------------------------
(* C28 *)

\* the login of invocation i has been rejected
LoginRejected(i) == resp[i].from = "login" /\ IsError(resp[i].value)

\* the first call invocation i issued, if it issued any, is its login
LoginFirst(i) ==
    \A j \in CallsOf(i) :
        calls[j].op # "login" => \E h \in CallsOf(i) : h < j /\ calls[h].op = "login"

\* C28: in addBlogPost and editBlogPost the login is the first remote call of
\* an invocation, nothing else is issued while the login has not settled, and
\* an invocation whose login is rejected ends by throwing the login's error,
\* having issued no lookup and no write.
C28_LoginPrecedesAll ==
    \A i \in Invs :
        tool[i] \in BlogPostTools =>
            /\ LoginFirst(i)
            /\ pc[i] \in {"start", "login"} => OpsOf(i) \subseteq {"login"}
            /\ LoginRejected(i) =>
                   /\ pc[i] = "threw"
                   /\ result[i] = [kind |-> "throw", error |-> resp[i].value]
                   /\ OpsOf(i) = {"login"}

\* C28 witness: the login of an edit with a valid id and an email was rejected
\* and the handler threw.
C28_Witness ==
    \E i \in Invs :
        /\ tool[i] = "editBlogPost"
        /\ Truthy(Get(input[i], "email"))
        /\ LoginRejected(i)
        /\ pc[i] = "threw"
        /\ OpsOf(i) = {"login"}

----------------------------------------------------------------------------
(* C30 *)

\* the custom_fields object the caller supplied to invocation i
SuppliedFields(i) == Destructure(input[i], "custom_fields", EmptyObject)

\* isFileField was asked about the field named k by invocation i
AskedAbout(i, k) ==
    \E j \in IssuedCalls(i, "getCustomLinks") : Get(calls[j].args[1], "name") = Str(k)

\* the fields of customEntryData that the handler sets itself
CoreFields ==
    {"custom_table_id", "name", "title", "parent_id", "lft", "rght", "level",
     "status", "publish_begin", "publish_end", "published", "creator_id"}

\* C30: the object addCustomEntry sends holds every key of custom_fields, with
\* the value the caller supplied or, for a field that looked like the path of
\* an existing file and that isFileField reported as a file field, a stream
\* reading that path; a key that is also a core field carries the custom
\* value, not the core one.  A field that isFileField has just reported as a
\* file field holds a stream.
C30_CustomFieldsMergedLast ==
    \A i \in Invs :
        tool[i] = "addCustomEntry" =>
            /\ IssuedCalls(i, "addCustomEntry") # {} =>
                   \A k \in Keys(SuppliedFields(i)) :
                       LET supplied == SuppliedFields(i).fields[k]
                           sent == Get(SentData(i), k)
                       IN \/ sent = supplied
                          \/ /\ sent = ReadStream(supplied)
                             /\ LooksLikeFile(supplied)
                             /\ AskedAbout(i, k)
            /\ resp[i].from = "getCustomLinks" /\ Truthy(isFileField(resp[i].value)) =>
                   customFields[i].fields[Entries(customFields[i])[cursor[i]]].t = "stream"

\* C30 witness: custom_fields held a title of its own and the path of an
\* image; the entry was sent with the custom title and a stream for the image.
C30_Witness ==
    \E i \in Invs :
        /\ tool[i] = "addCustomEntry"
        /\ IssuedCalls(i, "addCustomEntry") # {}
        /\ Keys(SuppliedFields(i)) = {"title", "image"}
        /\ Get(SentData(i), "title") = PlainText
        /\ Get(SentData(i), "title") # Get(input[i], "title")
        /\ Get(SentData(i), "image") = ReadStream(FilePath)
        /\ Keys(SuppliedFields(i)) \cap CoreFields = {"title"}

----------------------------------------------------------------------------
(* C29 *)

\* the delete call of invocation i has settled
DeleteSettled(i) == tool[i] \in DeleteTools /\ resp[i].from = "write"

\* the object the text returned by invocation i serializes
Returned(i) == result[i].text.of

\* C29: a delete handler that was given valid ids and logged in issues its
\* delete call exactly once; once the call has settled, the handler has
\* returned a text, and the text carries success: true exactly when the call
\* did not reject; after a rejection it carries an error message that ends
\* with the message of the rejection, and no success flag.
C29_DeleteSuccessIffNoRaise ==
    \A i \in Invs :
        tool[i] \in DeleteTools =>
            /\ Cardinality(IssuedCalls(i, tool[i])) <= 1
            /\ DeleteSettled(i) =>
                   /\ Cardinality(IssuedCalls(i, tool[i])) = 1
                   /\ pc[i] = "returned"
                   /\ result[i].kind = "return"
                   /\ Get(Returned(i), "success") = Bool(TRUE) <=> ~IsError(resp[i].value)
                   /\ IsError(resp[i].value) =>
                          /\ Keys(Returned(i)) = {"error"}
                          /\ Get(Returned(i), "error") =
                                 Str(ErrorPrefix(tool[i]) \o resp[i].value.msg)
                   /\ ~IsError(resp[i].value) => "error" \notin Keys(Returned(i))

\* C29 witness: the delete call of deleteCustomEntry rejected and the handler
\* returned the error text.
C29_Witness ==
    \E i \in Invs :
        /\ tool[i] = "deleteCustomEntry"
        /\ DeleteSettled(i)
        /\ IsError(resp[i].value)
        /\ "error" \in Keys(Returned(i))

\* a delete whose call answered nothing (undefined) still reports success
C29_WitnessSuccess ==
    \E i \in Invs :
        /\ tool[i] = "deleteBlogTag"
        /\ DeleteSettled(i)
        /\ resp[i].value = Undefined
        /\ Get(Returned(i), "success") = Bool(TRUE)

----------------------------------------------------------------------------
(* C25 *)

\* the field names invocation i was asked to attach
NamesOf(i) ==
    IF Truthy(Get(input[i], "custom_field_names"))
    THEN Get(input[i], "custom_field_names").items ELSE <<>>

\* the getCustomFields calls of invocation i, in the order it issued them
FieldLookups(i) ==
    SelectSeq(calls, LAMBDA c : c.inv = i /\ c.op = "getCustomFields")

\* the key of the link of the name at a position of custom_field_names
KeyAt(position) == "new_" \o Digits(position)

\* the lookup of the name at position m of invocation i has just settled with
\* the answer r: what createCustomLinks made of it
SettledAs(i, m, r) ==
    /\ IsError(r) => pc[i] = "attach" /\ KeyAt(m) \notin Keys(customLinks[i])
    /\ ~IsError(r) /\ (IsNullish(r) \/ r.items = <<>>) =>
           KeyAt(m) \notin Keys(customLinks[i])
    /\ ~IsError(r) /\ ~IsNullish(r) /\ r.items # <<>> =>
           /\ KeyAt(m) \in Keys(customLinks[i])
           /\ LET link == customLinks[i].fields[KeyAt(m)]
              IN /\ Get(link, "name") = Get(r.items[1], "name")
                 /\ Get(link, "custom_field_id") = Get(r.items[1], "id")
                 /\ Get(link, "type") = Get(r.items[1], "type")
                 /\ Get(link, "title") = Get(r.items[1], "title")

\* what createCustomLinks holds at every moment
LinksBuiltInOrder(i) ==
    LET names == NamesOf(i)
        looked == FieldLookups(i)
    IN /\ pc[i] # "threw"
       /\ Len(looked) <= Len(names)
       /\ \A k \in 1..Len(looked) : Get(looked[k].args[1], "name") = names[k]
       /\ Keys(customLinks[i]) \subseteq {KeyAt(k) : k \in 1..Len(looked)}
       /\ resp[i].from = "getCustomFields" =>
              SettledAs(i, Len(looked), resp[i].value)
       /\ "customFields" \in failed[i] => pc[i] \notin {"links", "awaitCustomFields"}

\* C25: createCustomLinks never throws; it looks the names up in input order;
\* a lookup that answers at least one field adds the entry new_<position>
\* built from the first field, a lookup that answers none adds nothing, and
\* the first lookup that raises ends the lookups; the entries built are kept
\* as they are to the end.
C25_CreateCustomLinks ==
    /\ [](\A i \in Invs : tool[i] = "addCustomTable" => LinksBuiltInOrder(i))
    /\ [][\A i \in Invs : \A k \in Keys(customLinks[i]) :
             /\ k \in Keys(customLinks'[i])
             /\ customLinks'[i].fields[k] = customLinks[i].fields[k]]_vars

\* C25 witness: of two names the first was found and the lookup of the second
\* raised: createCustomLinks returned the one entry new_1.
C25_Witness ==
    \E i \in Invs :
        /\ tool[i] = "addCustomTable"
        /\ Len(NamesOf(i)) = 2
        /\ resp[i].from = "getCustomFields"
        /\ IsError(resp[i].value)
        /\ Len(FieldLookups(i)) = 2
        /\ Keys(customLinks[i]) = {"new_1"}
        /\ pc[i] = "attach"

----------------------------------------------------------------------------
(* C24 *)

\* the create call of invocation i answered a table, with no errors
CreateSucceeded(i) ==
    /\ tool[i] = "addCustomTable"
    /\ Truthy(customTable[i])
    /\ ~Truthy(Get(customTable[i], "errors"))

\* the handler of invocation i has ended
Ended(i) == pc[i] \in {"returned", "threw"}

\* a field lookup of invocation i raised
LookupRaised(i) == "customFields" \in failed[i]

\* field names were given and no link was built from them
NoLinkBuilt(i) == NamesOf(i) # <<>> /\ Keys(customLinks[i]) = {}

\* the edit that attaches the links raised: the call rejected, or the id of
\* the table could not be read for it
EditRaised(i) ==
    \/ resp[i].from = "editCustomTable" /\ IsError(resp[i].value)
    \/ Keys(customLinks[i]) # {} /\ IssuedCalls(i, "editCustomTable") = {}

\* the text returned holds every member of the created table, and a warning
TableWithWarning(i) ==
    /\ result[i].kind = "return"
    /\ "warning" \in Keys(Returned(i))
    /\ \A k \in Keys(customTable[i]) : Get(Returned(i), k) = customTable[i].fields[k]

\* the handler of invocation i never gives an error and never deletes the table
NoErrorNoRollback(i) ==
    /\ pc[i] # "threw"
    /\ Ended(i) => ~ErrorOutcome(i)
    /\ OpsOf(i) \cap DeleteTools = {}

\* C24: once the create has succeeded the handler returns no error result and
\* deletes nothing, and when a field lookup raised, the edit raised or no link
\* could be built, it returns the created table with a warning.
C24_WarnsOfEveryFailure ==
    \A i \in Invs :
        CreateSucceeded(i) =>
            /\ NoErrorNoRollback(i)
            /\ Ended(i) /\ (LookupRaised(i) \/ EditRaised(i) \/ NoLinkBuilt(i)) =>
                   TableWithWarning(i)

----------------------------------------------------------------------------
(* C21 *)

\* C21: the responses are written in the order in which their request lines
\* were received, however the input is split into chunks and in whatever
\* order the handleRequest calls settle.
C21_ResponsesInRequestOrder ==
    \A j, h \in 1..Len(stdout) : j < h => stdout[j].line < stdout[h].line

----------------------------------------------------------------------------
(* C22 *)

RECURSIVE LinesOf(_)
\* the newline-terminated lines of a text, in order
LinesOf(text) ==
    LET boundary == IndexOf(text, Newline)
    IN IF boundary = -1 THEN <<>>
       ELSE <<SubSeq(text, 1, boundary)>> \o LinesOf(SubSeq(text, boundary + 2, Len(text)))

\* the numbers of the lines that have been answered / are being handled
Answered == {stdout[j].line : j \in 1..Len(stdout)}
Handled == {w.line : w \in awaiting}

\* what the loop holds at every moment
EachLineOnce ==
    /\ received = Join(taken) \o buffer
    /\ awaiting = {} => IndexOf(buffer, Newline) = -1
    /\ Answered \cup Handled = 1..Len(taken)
    /\ Answered \cap Handled = {}
    /\ Cardinality(Answered) = Len(stdout)
    /\ Cardinality(Handled) = Cardinality(awaiting)
    /\ \A j \in 1..Len(stdout) :
          IsError(JsonParse(taken[stdout[j].line])) =>
              stdout[j].text = Stringify(Obj([error |-> Str(JsonParse(taken[stdout[j].line]).msg)]))

\* C22: every newline-terminated line received is sliced off the buffer
\* exactly once, in order, and gets exactly one response line, the error
\* object when it does not parse; what follows the last newline stays in the
\* buffer and gets no response; and every line that is being handled is
\* answered in the end.
C22_OneResponsePerLine ==
    /\ []EachLineOnce
    /\ \A k \in 1..MaxLines : (k \in Handled) ~> (k \in Answered)

\* C22 witness: all the input has arrived, an addArticle line and a line that
\* does not parse have both been answered, and the start of a further line is
\* left in the buffer.
C22_Witness ==
    /\ stdin = <<>>
    /\ Len(taken) = MaxLines
    /\ \E k \in 1..Len(taken) : taken[k] = ArticleLine
    /\ \E k \in 1..Len(taken) : taken[k] = BadLine
    /\ Answered = 1..Len(taken)
    /\ buffer = <<"{", "h">>
    /\ awaiting = {}

====
